---------------------------- MODULE Spec2Model ----------------------------
(***************************************************************************)
(* Model of the riscv-h register views (src/src/register/hypervisorx64).   *)
(*                                                                         *)
(* A register view is a struct holding one usize, `bits`.  usize is 64     *)
(* bits wide on the RV64 targets the crate is written for; TLC's integers  *)
(* are 32 bits wide, so a machine word is modelled as the set of positions *)
(* of its 1 bits, and the word operations the code uses (<<, >>, &, |, !)  *)
(* act on such sets exactly as they act on a 64-bit word: bits shifted     *)
(* past either end are lost.                                               *)
(*                                                                         *)
(* The accessors are written with the BitField trait of the bit_field      *)
(* crate (`use bit_field::BitField`), whose four methods are modelled      *)
(* below as the crate implements them for usize, assertions included.      *)
(*                                                                         *)
(* The physical registers are reached through the macros of the riscv      *)
(* crate (read_csr_as!, write_csr!, set!, clear!, set_clear_csr!, ...),    *)
(* which expand to one csrrs, csrrw, csrrs or csrrc instruction at the     *)
(* address given to the macro.  The CSR file is modelled as a function     *)
(* from address to word.                                                   *)
(***************************************************************************)
EXTENDS Integers, FiniteSets, Sequences, TLC

VARIABLES
    view,   \* owner -> the register view the owner holds: [reg, bits]
    orig,   \* owner -> the word the owner's view was built from (history)
    sets,   \* owner -> field name -> value last given to that field's setter (history)
    last,   \* the last call: [op, owner, field, arg, ret], with the views (pre)
            \* and the CSR file (was) before it; owner is the module for a
            \* module-level function
    fault,  \* "none", or the message of the panic that halted the program
    csr,    \* CSR address -> the word the physical register holds
    issued  \* the CSR instructions executed so far: <<[op, addr, word], ...>> (history)

vars == <<view, orig, sets, last, fault, csr, issued>>

---------------------------------------------------------------------------
(* Machine words                                                           *)

\* usize::BITS on a 64-bit target (BitField::BIT_LENGTH for usize).
BIT_LENGTH == 64

AllBits == 0 .. (BIT_LENGTH - 1)

Zero == {}
AllOnes == AllBits

\* The word whose only 1 bit is bit i: `1 << i`.
Bit(i) == {i}

\* x << n and x >> n on a 64-bit word, 0 <= n < 64.
Shl(x, n) == {i + n : i \in {j \in x : j + n < BIT_LENGTH}}
Shr(x, n) == {i - n : i \in {j \in x : j >= n}}

And(x, y) == x \cap y
Or(x, y) == x \cup y
Not(x) == AllBits \ x

\* The word of a small natural number (n < 2^16).
ToBits(n) == {i \in 0 .. 15 : (n \div (2 ^ i)) % 2 = 1}

\* The natural number of a word narrower than 31 bits.
RECURSIVE ToNat(_)
ToNat(x) ==
    IF x = {} THEN 0
    ELSE LET i == CHOOSE j \in x : \A k \in x : k <= j
         IN  (2 ^ i) + ToNat(x \ {i})

\* A 64-bit literal written as four 16-bit groups, most significant first.
Hex(a, b, c, d) ==
    Or(Or(Shl(ToBits(a), 48), Shl(ToBits(b), 32)),
       Or(Shl(ToBits(c), 16), ToBits(d)))

\* The n low bits set: 2^n - 1.
Ones(n) == 0 .. (n - 1)

---------------------------------------------------------------------------
(* bit_field::BitField for usize                                           *)

NoPanic == "none"
\* unreachable!() : the panic of an enumeration's `from` on an unlisted code
Unreachable == "internal error: entered unreachable code"
\* the assertion of BitField::set_bits on a value wider than the range
DoesNotFit == "value does not fit into bit range"

\* get_bit(bit): (*self & (1 << bit)) != 0
get_bit(self, bit) == And(self, Shl(Bit(0), bit)) # Zero

\* (mutant) set_bit that sets but never clears
set_bit_sticky(self, bit, value) ==
    IF value THEN Or(self, Shl(Bit(0), bit)) ELSE self

\* set_bit(bit, value): *self |= 1 << bit, or *self &= !(1 << bit)
set_bit(self, bit, value) ==
    IF value THEN Or(self, Shl(Bit(0), bit))
    ELSE And(self, Not(Shl(Bit(0), bit)))

\* (mutant) get_bits shifting one bit too many away at the top
get_bits_short(self, start, end) ==
    LET high == Shr(Shl(self, BIT_LENGTH - end + 1), BIT_LENGTH - end + 1)
    IN  Shr(high, start)

\* (mutant) get_bits that masks the high bits away but leaves the field where
\* it is in the word
get_bits_noshift(self, start, end) ==
    LET high == Shr(Shl(self, BIT_LENGTH - end), BIT_LENGTH - end)
    IN  Shl(Shr(high, start), start)

\* get_bits(start..end): shift away the high bits, then the low bits
get_bits(self, start, end) ==
    LET high == Shr(Shl(self, BIT_LENGTH - end), BIT_LENGTH - end)
    IN  Shr(high, start)

\* The assertion of set_bits:
\*   value << (BIT_LENGTH - (end - start)) >> (BIT_LENGTH - (end - start)) == value
fits(value, start, end) ==
    Shr(Shl(value, BIT_LENGTH - (end - start)), BIT_LENGTH - (end - start)) = value

\* (mutant) the mask without `>> start << start`: the bits below the range
\* are cleared as well
bitmask_low(start, end) ==
    Not(Shr(Shl(Not(Zero), BIT_LENGTH - end), BIT_LENGTH - end))

\* (mutant) the mask without the cut at `end`: the bits above the range are
\* cleared as well
bitmask_high(start, end) ==
    Not(Shl(Shr(Not(Zero), start), start))

\* The mask set_bits keeps: !(!0 << (BIT_LENGTH - end) >> (BIT_LENGTH - end)
\*                            >> start << start)
bitmask(start, end) ==
    Not(Shl(Shr(Shr(Shl(Not(Zero), BIT_LENGTH - end), BIT_LENGTH - end), start), start))

\* (mutant) set_bits without the assertion: the value is cut to the range
set_bits_masked(self, start, end, value) ==
    [panic |-> NoPanic,
     bits  |-> Or(And(self, bitmask(start, end)),
                  Shl(And(value, Ones(end - start)), start))]

\* set_bits(start..end, value): panics when the value does not fit, and
\* otherwise *self = (*self & bitmask) | (value << start)
set_bits(self, start, end, value) ==
    IF ~fits(value, start, end)
    THEN [panic |-> DoesNotFit, bits |-> self]
    ELSE [panic |-> NoPanic,
          bits  |-> Or(And(self, bitmask(start, end)), Shl(value, start))]

---------------------------------------------------------------------------
(* Enumerated field values                                                 *)

\* #[repr(usize)] enum HgatpValues of hgatp.rs: variant -> discriminant
hgatp_HgatpValues == [Bare |-> 0, Sv39x4 |-> 8, Sv48x4 |-> 9]

\* #[repr(usize)] enum HgatpValues of vsatp.rs (a second type of the same name)
vsatp_HgatpValues == [Bare |-> 0, Sv39x4 |-> 8, Sv48x4 |-> 9]

\* #[repr(usize)] enum VsxlValues of hstatus.rs
VsxlValues == [Vsxl32 |-> 1, Vsxl64 |-> 2, Vsxl128 |-> 3]

\* #[repr(usize)] enum UxlValues of vsstatus.rs
UxlValues == [Uxl32 |-> 1, Uxl64 |-> 2, Uxl128 |-> 3]

Enums == {"hgatp::HgatpValues", "vsatp::HgatpValues", "VsxlValues", "UxlValues"}

Discriminants(e) ==
    CASE e = "hgatp::HgatpValues" -> hgatp_HgatpValues
      [] e = "vsatp::HgatpValues" -> vsatp_HgatpValues
      [] e = "VsxlValues" -> VsxlValues
      [] e = "UxlValues" -> UxlValues

\* A value of an enumeration type: the type and the variant.
Variant(e, n) == [enum |-> e, name |-> n]
Variants(e) == {Variant(e, n) : n \in DOMAIN Discriminants(e)}

\* (mutant) the cast giving the variant's position in the declaration
\* (0, 1, 2) in place of its discriminant
as_usize_ordinal(val) ==
    LET d == Discriminants(val.enum)
    IN  Cardinality({n \in DOMAIN d : d[n] < d[val.name]})

\* `val as usize`
as_usize(val) == Discriminants(val.enum)[val.name]

Returned(v) == [panic |-> NoPanic, val |-> v]
Panicked(msg, v) == [panic |-> msg, val |-> v]

\* hgatp.rs: HgatpValues::from
hgatp_HgatpValues_from(x) ==
    CASE x = 0 -> Returned(Variant("hgatp::HgatpValues", "Bare"))
      [] x = 8 -> Returned(Variant("hgatp::HgatpValues", "Sv39x4"))
      [] x = 9 -> Returned(Variant("hgatp::HgatpValues", "Sv48x4"))
      [] OTHER -> Panicked(Unreachable, Variant("hgatp::HgatpValues", "-"))

\* (mutant) vsatp's HgatpValues::from with the arms of 8 and 9 exchanged
vsatp_HgatpValues_from_swapped(x) ==
    CASE x = 0 -> Returned(Variant("vsatp::HgatpValues", "Bare"))
      [] x = 8 -> Returned(Variant("vsatp::HgatpValues", "Sv48x4"))
      [] x = 9 -> Returned(Variant("vsatp::HgatpValues", "Sv39x4"))
      [] OTHER -> Panicked(Unreachable, Variant("vsatp::HgatpValues", "-"))

\* vsatp.rs: HgatpValues::from
vsatp_HgatpValues_from(x) ==
    CASE x = 0 -> Returned(Variant("vsatp::HgatpValues", "Bare"))
      [] x = 8 -> Returned(Variant("vsatp::HgatpValues", "Sv39x4"))
      [] x = 9 -> Returned(Variant("vsatp::HgatpValues", "Sv48x4"))
      [] OTHER -> Panicked(Unreachable, Variant("vsatp::HgatpValues", "-"))

\* (mutant) VsxlValues::from with the arm of 3 returning Vsxl64
VsxlValues_from_dup(x) ==
    CASE x = 1 -> Returned(Variant("VsxlValues", "Vsxl32"))
      [] x = 2 -> Returned(Variant("VsxlValues", "Vsxl64"))
      [] x = 3 -> Returned(Variant("VsxlValues", "Vsxl64"))
      [] OTHER -> Panicked(Unreachable, Variant("VsxlValues", "-"))

\* hstatus.rs: VsxlValues::from
VsxlValues_from(x) ==
    CASE x = 1 -> Returned(Variant("VsxlValues", "Vsxl32"))
      [] x = 2 -> Returned(Variant("VsxlValues", "Vsxl64"))
      [] x = 3 -> Returned(Variant("VsxlValues", "Vsxl128"))
      [] OTHER -> Panicked(Unreachable, Variant("VsxlValues", "-"))

\* (mutant) UxlValues::from with a default arm in place of unreachable!()
UxlValues_from_default(x) ==
    CASE x = 1 -> Returned(Variant("UxlValues", "Uxl32"))
      [] x = 3 -> Returned(Variant("UxlValues", "Uxl128"))
      [] OTHER -> Returned(Variant("UxlValues", "Uxl64"))

\* vsstatus.rs: UxlValues::from
UxlValues_from(x) ==
    CASE x = 1 -> Returned(Variant("UxlValues", "Uxl32"))
      [] x = 2 -> Returned(Variant("UxlValues", "Uxl64"))
      [] x = 3 -> Returned(Variant("UxlValues", "Uxl128"))
      [] OTHER -> Panicked(Unreachable, Variant("UxlValues", "-"))

\* E::from(x) for the enumeration type named e
from(e, x) ==
    CASE e = "hgatp::HgatpValues" -> hgatp_HgatpValues_from(x)
      [] e = "vsatp::HgatpValues" -> vsatp_HgatpValues_from(x)
      [] e = "VsxlValues" -> VsxlValues_from(x)
      [] e = "UxlValues" -> UxlValues_from(x)

---------------------------------------------------------------------------
(* Register views: the accessors of each impl block                        *)
(*                                                                         *)
(* One entry per getter/setter pair: a flag read with get_bit(start) and   *)
(* written with set_bit(start, val); a scalar read with                    *)
(* get_bits(start..end) and written with set_bits(start..end, val); an     *)
(* enumerated field read with E::from(get_bits(start..end)) and written    *)
(* with set_bits(start..end, val as usize).                                *)

Flag(n, b) == [name |-> n, kind |-> "flag", start |-> b, end |-> b + 1, enum |-> ""]
Scalar(n, s, e) == [name |-> n, kind |-> "scalar", start |-> s, end |-> e, enum |-> ""]
Enumerated(n, s, e, t) == [name |-> n, kind |-> "enum", start |-> s, end |-> e, enum |-> t]

\* (mutant) Hstatus with vsxl two bits too high, at 34..36
Hstatus_vsxl34 ==
    { Enumerated("vsxl", 34, 36, "VsxlValues"),
      Flag("vtsr", 22), Flag("vtw", 21), Flag("vtvm", 20),
      Scalar("vgein", 12, 18),
      Flag("hu", 9), Flag("spvp", 8), Flag("spv", 7), Flag("gva", 6), Flag("vsbe", 5) }

\* (mutant) vgein one bit high, on bits 13..18
Hstatus_vgein13 ==
    { Enumerated("vsxl", 32, 34, "VsxlValues"),
      Flag("vtsr", 22), Flag("vtw", 21), Flag("vtvm", 20),
      Scalar("vgein", 13, 19),
      Flag("hu", 9), Flag("spvp", 8), Flag("spv", 7), Flag("gva", 6), Flag("vsbe", 5) }

Hstatus ==
    { Enumerated("vsxl", 32, 34, "VsxlValues"),
      Flag("vtsr", 22), Flag("vtw", 21), Flag("vtvm", 20),
      Scalar("vgein", 12, 18),
      Flag("hu", 9), Flag("spvp", 8), Flag("spv", 7), Flag("gva", 6), Flag("vsbe", 5) }

\* (mutant) Hgatp with vmid one bit too high, at 45..59
Hgatp_vmid45 ==
    { Enumerated("mode", 60, 64, "hgatp::HgatpValues"),
      Scalar("vmid", 45, 59),
      Scalar("ppn", 0, 44) }

\* (mutant) Hgatp with ppn one bit wider, on bits 0..44, over the low bit
\* of vmid
Hgatp_ppn45 ==
    { Enumerated("mode", 60, 64, "hgatp::HgatpValues"),
      Scalar("vmid", 44, 58),
      Scalar("ppn", 0, 45) }

Hgatp ==
    { Enumerated("mode", 60, 64, "hgatp::HgatpValues"),
      Scalar("vmid", 44, 58),
      Scalar("ppn", 0, 44) }

\* (mutant) set_ex12/ex12 one bit low, on reserved bit 11
Hedeleg_ex12at11 ==
    { Flag("ex0", 0), Flag("ex1", 1), Flag("ex2", 2), Flag("ex3", 3),
      Flag("ex4", 4), Flag("ex5", 5), Flag("ex6", 6), Flag("ex7", 7),
      Flag("ex8", 8), Flag("ex12", 11), Flag("ex13", 13), Flag("ex15", 15) }

Hedeleg ==
    { Flag("ex0", 0), Flag("ex1", 1), Flag("ex2", 2), Flag("ex3", 3),
      Flag("ex4", 4), Flag("ex5", 5), Flag("ex6", 6), Flag("ex7", 7),
      Flag("ex8", 8), Flag("ex12", 12), Flag("ex13", 13), Flag("ex15", 15) }

Hideleg == { Flag("sip", 2), Flag("tip", 6), Flag("eip", 10) }

Hie == { Flag("vssie", 2), Flag("vstie", 6), Flag("vseie", 10), Flag("sgeie", 12) }

Hip == { Flag("vssip", 2), Flag("vstip", 6), Flag("vseip", 10), Flag("sgeip", 12) }

Hvip == { Flag("vssip", 2), Flag("vstip", 6), Flag("vseip", 10) }

\* (mutant) asid one bit wider, on bits 44..60, over the low bit of mode
Vsatp_asid61 ==
    { Enumerated("mode", 60, 64, "vsatp::HgatpValues"),
      Scalar("asid", 44, 61),
      Scalar("ppn", 0, 44) }

Vsatp ==
    { Enumerated("mode", 60, 64, "vsatp::HgatpValues"),
      Scalar("asid", 44, 60),
      Scalar("ppn", 0, 44) }

Vscause == { Flag("interrupt", 63), Scalar("code", 0, 63) }

Vsie == { Flag("ssie", 1), Flag("stie", 5), Flag("seie", 9) }

Vsip == { Flag("ssip", 1), Flag("stip", 5), Flag("seip", 9) }

\* (mutant) xs one bit low, on bits 14..15, over the top bit of fs
Vsstatus_xs14 ==
    { Scalar("sd", 60, 64),
      Enumerated("uxl", 32, 34, "UxlValues"),
      Flag("mxr", 19), Flag("sum", 18),
      Scalar("xs", 14, 16), Scalar("fs", 13, 15),
      Flag("spp", 8), Flag("ube", 6), Flag("spie", 5), Flag("sie", 1) }

Vsstatus ==
    { Scalar("sd", 60, 64),
      Enumerated("uxl", 32, 34, "UxlValues"),
      Flag("mxr", 19), Flag("sum", 18),
      Scalar("xs", 15, 17), Scalar("fs", 13, 15),
      Flag("spp", 8), Flag("ube", 6), Flag("spie", 5), Flag("sie", 1) }

\* (mutant) base one bit high, on bits 3..63: bit 2 belongs to no field
Vstvec_base3 == { Scalar("base", 3, 64), Scalar("mode", 0, 2) }

Vstvec == { Scalar("base", 2, 64), Scalar("mode", 0, 2) }

Regs == {"Hstatus", "Hgatp", "Hedeleg", "Hideleg", "Hie", "Hip", "Hvip",
         "Vsatp", "Vscause", "Vsie", "Vsip", "Vsstatus", "Vstvec"}

\* The accessors of the view type named reg.
Fields(reg) ==
    CASE reg = "Hstatus" -> Hstatus
      [] reg = "Hgatp" -> Hgatp
      [] reg = "Hedeleg" -> Hedeleg
      [] reg = "Hideleg" -> Hideleg
      [] reg = "Hie" -> Hie
      [] reg = "Hip" -> Hip
      [] reg = "Hvip" -> Hvip
      [] reg = "Vsatp" -> Vsatp
      [] reg = "Vscause" -> Vscause
      [] reg = "Vsie" -> Vsie
      [] reg = "Vsip" -> Vsip
      [] reg = "Vsstatus" -> Vsstatus
      [] reg = "Vstvec" -> Vstvec
      [] OTHER -> {}

\* (mutant) from_bits keeping only the low 32 bits of the word
from_bits_u32(reg, x) == [reg |-> reg, bits |-> And(x, Ones(32))]

\* R::from_bits(x): R { bits: x }
from_bits(reg, x) == [reg |-> reg, bits |-> x]

\* self.bits()
bits(self) == self.bits

\* (mutant) getters that validate the view's enumerated field first,
\* whichever field is read
getter_eager(self, f) ==
    LET enums == {g \in Fields(self.reg) : g.kind = "enum"}
        bad == {g \in enums :
                  from(g.enum, ToNat(get_bits(self.bits, g.start, g.end))).panic # NoPanic}
    IN  IF bad # {}
        THEN Panicked(Unreachable, Zero)
        ELSE CASE f.kind = "flag" -> Returned(get_bit(self.bits, f.start))
               [] f.kind = "scalar" -> Returned(get_bits(self.bits, f.start, f.end))
               [] f.kind = "enum" -> from(f.enum, ToNat(get_bits(self.bits, f.start, f.end)))

\* The getter of field f: self.f()
getter(self, f) ==
    CASE f.kind = "flag" -> Returned(get_bit(self.bits, f.start))
      [] f.kind = "scalar" -> Returned(get_bits(self.bits, f.start, f.end))
      [] f.kind = "enum" -> from(f.enum, ToNat(get_bits(self.bits, f.start, f.end)))

\* The setter of field f: self.set_f(val); the view afterwards, and the
\* panic if the call panicked.
setter(self, f, val) ==
    CASE f.kind = "flag" ->
            [panic |-> NoPanic, view |-> [self EXCEPT !.bits = set_bit(self.bits, f.start, val)]]
      [] f.kind = "scalar" ->
            LET r == set_bits(self.bits, f.start, f.end, val)
            IN  [panic |-> r.panic, view |-> [self EXCEPT !.bits = r.bits]]
      [] f.kind = "enum" ->
            LET r == set_bits(self.bits, f.start, f.end, ToBits(as_usize(val)))
            IN  [panic |-> r.panic, view |-> [self EXCEPT !.bits = r.bits]]

---------------------------------------------------------------------------
(* The CSR file                                                            *)

\* The modules without a view type: read() returns and write(bits) takes a
\* raw usize (read_csr_as_usize!, write_csr_as_usize!).
UsizeRegs == {"hgeie", "hgeip", "htimedelta", "htimedeltah", "htinst",
              "vsepc", "vsscratch", "vstval"}

Modules == Regs \cup UsizeRegs

\* The address a module gives to each of its macros.
Csr(r, w, s, c) == [read |-> r, write |-> w, set |-> s, clear |-> c]
CsrUsize(r, w) == [read |-> r, write |-> w]

\* (mutant) hip bound to 0x645, the address of hvip
Address_hip645 ==
    [ Hstatus |-> Csr(\h600, \h600, \h600, \h600),
      Hedeleg |-> Csr(\h602, \h602, \h602, \h602),
      Hideleg |-> Csr(\h603, \h603, \h603, \h603),
      Hie |-> Csr(\h604, \h604, \h604, \h604),
      Hip |-> Csr(\h645, \h645, \h645, \h645),
      Hvip |-> Csr(\h645, \h645, \h645, \h645),
      Hgatp |-> Csr(\h680, \h680, \h680, \h680),
      Vsstatus |-> Csr(\h200, \h200, \h200, \h200),
      Vsie |-> Csr(\h204, \h204, \h204, \h204),
      Vstvec |-> Csr(\h205, \h205, \h205, \h205),
      Vscause |-> Csr(\h242, \h242, \h242, \h242),
      Vsip |-> Csr(\h244, \h244, \h244, \h244),
      Vsatp |-> Csr(\h280, \h280, \h280, \h280),
      htimedelta |-> CsrUsize(\h605, \h605),
      hgeie |-> CsrUsize(\h607, \h607),
      htimedeltah |-> CsrUsize(\h615, \h615),
      htinst |-> CsrUsize(\h64A, \h64A),
      hgeip |-> CsrUsize(\hE12, \hE12),
      vsscratch |-> CsrUsize(\h240, \h240),
      vsepc |-> CsrUsize(\h241, \h241),
      vstval |-> CsrUsize(\h243, \h243) ]

Address ==
    [ Hstatus |-> Csr(\h600, \h600, \h600, \h600),
      Hedeleg |-> Csr(\h602, \h602, \h602, \h602),
      Hideleg |-> Csr(\h603, \h603, \h603, \h603),
      Hie |-> Csr(\h604, \h604, \h604, \h604),
      Hip |-> Csr(\h644, \h644, \h644, \h644),
      Hvip |-> Csr(\h645, \h645, \h645, \h645),
      Hgatp |-> Csr(\h680, \h680, \h680, \h680),
      Vsstatus |-> Csr(\h200, \h200, \h200, \h200),
      Vsie |-> Csr(\h204, \h204, \h204, \h204),
      Vstvec |-> Csr(\h205, \h205, \h205, \h205),
      Vscause |-> Csr(\h242, \h242, \h242, \h242),
      Vsip |-> Csr(\h244, \h244, \h244, \h244),
      Vsatp |-> Csr(\h280, \h280, \h280, \h280),
      htimedelta |-> CsrUsize(\h605, \h605),
      hgeie |-> CsrUsize(\h607, \h607),
      htimedeltah |-> CsrUsize(\h615, \h615),
      htinst |-> CsrUsize(\h64A, \h64A),
      hgeip |-> CsrUsize(\hE12, \hE12),
      vsscratch |-> CsrUsize(\h240, \h240),
      vsepc |-> CsrUsize(\h241, \h241),
      vstval |-> CsrUsize(\h243, \h243) ]

\* Every address some macro of some module names.
Addresses ==
    UNION {{Address[m][k] : k \in DOMAIN Address[m]} : m \in Modules}

\* The instructions the macros of the riscv crate expand to, on a CSR file
\* (address -> word).  What the hardware itself makes of a written value
\* (read-only or WARL bits) is outside the crate and not modelled.
\* csrrs rd, addr, x0
csrrs_x0(file, addr) == file[addr]

\* (mutant) a write that ORs the word into the register
csrrw_or(file, addr, word) == [file EXCEPT ![addr] = Or(@, word)]

\* csrrw x0, addr, rs
csrrw(file, addr, word) == [file EXCEPT ![addr] = word]

\* (mutant) a set done as read, OR, write back, with the read taken from
\* the reset value 0: the register ends as the mask alone
csrrs_store(file, addr, mask) == [file EXCEPT ![addr] = mask]

\* csrrs x0, addr, rs
csrrs(file, addr, mask) == [file EXCEPT ![addr] = Or(@, mask)]

\* (mutant) a clear that writes the complement of the mask
csrrc_store(file, addr, mask) == [file EXCEPT ![addr] = Not(mask)]

\* csrrc x0, addr, rs
csrrc(file, addr, mask) == [file EXCEPT ![addr] = And(@, Not(mask))]

\* set_clear_csr!(doc, set_n, clear_n, 1 << b)
SetClear(n, b) == [name |-> n, mask |-> Shl(Bit(0), b)]

hedeleg_set_clear ==
    { SetClear("ex0", 0), SetClear("ex1", 1), SetClear("ex2", 2),
      SetClear("ex3", 3), SetClear("ex4", 4), SetClear("ex5", 5),
      SetClear("ex6", 6), SetClear("ex7", 7), SetClear("ex8", 8),
      SetClear("ex12", 12), SetClear("ex13", 13), SetClear("ex15", 15) }

hideleg_set_clear ==
    { SetClear("sip", 2), SetClear("tip", 6), SetClear("eip", 10) }

hie_set_clear ==
    { SetClear("vssie", 2), SetClear("vstie", 6), SetClear("vseie", 10),
      SetClear("sgeie", 12) }

hip_set_clear ==
    { SetClear("vssip", 2), SetClear("vstip", 6), SetClear("vseip", 10),
      SetClear("sgeip", 12) }

hstatus_set_clear ==
    { SetClear("vtsr", 22), SetClear("vtw", 21), SetClear("vtvm", 20),
      SetClear("hu", 9), SetClear("spvp", 8), SetClear("spv", 7),
      SetClear("gva", 6), SetClear("vsbe", 5) }

hvip_set_clear ==
    { SetClear("vssip", 2), SetClear("vstip", 6), SetClear("vseip", 10) }

vscause_set_clear == { SetClear("interrupt", 63) }

\* (mutant) set_ssie/clear_ssie with the mask of hie's vssie, 1 << 2
vsie_set_clear_ssie2 ==
    { SetClear("ssie", 2), SetClear("stie", 5), SetClear("seie", 9) }

vsie_set_clear ==
    { SetClear("ssie", 1), SetClear("stie", 5), SetClear("seie", 9) }

vsip_set_clear ==
    { SetClear("ssip", 1), SetClear("stip", 5), SetClear("seip", 9) }

vsstatus_set_clear ==
    { SetClear("mxr", 19), SetClear("sum", 18), SetClear("spp", 8),
      SetClear("ube", 6), SetClear("spie", 5), SetClear("sie", 1) }

\* The set_X/clear_X functions of the module of view type reg.
SetClearOps(reg) ==
    CASE reg = "Hedeleg" -> hedeleg_set_clear
      [] reg = "Hideleg" -> hideleg_set_clear
      [] reg = "Hie" -> hie_set_clear
      [] reg = "Hip" -> hip_set_clear
      [] reg = "Hstatus" -> hstatus_set_clear
      [] reg = "Hvip" -> hvip_set_clear
      [] reg = "Vscause" -> vscause_set_clear
      [] reg = "Vsie" -> vsie_set_clear
      [] reg = "Vsip" -> vsip_set_clear
      [] reg = "Vsstatus" -> vsstatus_set_clear
      [] OTHER -> {}

---------------------------------------------------------------------------
(* Inputs                                                                  *)

\* Number of distinct fields of one view that setters are called on.
MaxSets == 1

\* Largest code handed directly to an enumeration's `from`.
MaxCode == 31

\* Number of CSR-changing instructions (csrrw, csrrs, csrrc) in a behaviour
\* of the specifications that bound them.
MaxCsrOps == 1

\* Number of distinct Hedeleg setters called on one view.
MaxHedelegSets == 2

\* Number of setter calls whose order is changed.
MaxReordered == 2

\* Number of CSR-changing instructions in a behaviour of the
\* specifications in which views are changed between commits.
MaxCommits == 2

Owners == {"a", "b"}

\* Raw words views are built from: all zeros, all ones, and the patterns
\* of the test suites (0xDEADBEEFCAFEBABE, 0x123456789ABCDEF0).  Among them
\* every enumerated field meets both a legal and an illegal code.
DeadBeef == Hex(\hDEAD, \hBEEF, \hCAFE, \hBABE)
Digits == Hex(\h1234, \h5678, \h9ABC, \hDEF0)

Words == {Zero, AllOnes, DeadBeef, Digits}

\* 0b...101010, cut to the n low bits
Alternating(n) == {i \in Ones(n) : i % 2 = 1}

\* Values handed to the setter of field f.  A scalar setter takes any usize:
\* 0, the all-ones value of the field, a mixed pattern, the values of the
\* test suites, and two values wider than the field (2^n and usize::MAX).
TestVmid == Hex(0, 0, 0, \h2A3F)
TestPpn == Hex(0, \h0123, \h4567, \h89AB)

TestValues(f) ==
    CASE f.name = "vmid" -> {TestVmid}
      [] f.name = "ppn" -> {TestPpn}
      [] OTHER -> {}

Args(f) ==
    CASE f.kind = "flag" -> BOOLEAN
      [] f.kind = "enum" -> Variants(f.enum)
      [] f.kind = "scalar" ->
            LET n == f.end - f.start
            IN  {Zero, Ones(n), Alternating(n), AllOnes} \cup TestValues(f)
                \cup (IF n < BIT_LENGTH THEN {Bit(n)} ELSE {})

---------------------------------------------------------------------------
(* The program                                                             *)

NoView == [reg |-> "none", bits |-> Zero]
NoField == [name |-> "-", kind |-> "-", start |-> 0, end |-> 0, enum |-> ""]
NoSets == [n \in {} |-> Zero]

\* The record of a call, with the views and the CSR file as they were when
\* it was made.
Call(op, o, f, arg, ret) ==
    [op |-> op, owner |-> o, field |-> f, arg |-> arg, ret |-> ret,
     pre |-> view, was |-> csr]

Init ==
    /\ view = [o \in Owners |-> NoView]
    /\ orig = [o \in Owners |-> Zero]
    /\ sets = [o \in Owners |-> NoSets]
    /\ fault = NoPanic
    /\ csr = [a \in Addresses |-> Zero]
    /\ issued = <<>>
    /\ last = Call("none", "-", NoField, Zero, Zero)

\* A panic halts the program: nothing runs after it.
Running == fault = NoPanic

\* (mutant) one storage per register type, shared by every view of the type
store_shared(views, o, v) ==
    [p \in DOMAIN views |->
        IF p = o \/ views[p].reg = v.reg THEN v ELSE views[p]]

\* Assignment to the variable owner o holds.  A view is a plain
\* `struct R { bits: usize }` deriving Copy and Clone: each variable has its
\* own storage, and a setter's `&mut self` writes that storage only.
store(views, o, v) == [views EXCEPT ![o] = v]

\* let o = R::from_bits(w);
FromBits(o, r, w) ==
    /\ Running
    /\ view[o] = NoView
    /\ view' = store(view, o, from_bits(r, w))
    /\ orig' = [orig EXCEPT ![o] = w]
    /\ sets' = [sets EXCEPT ![o] = NoSets]
    /\ last' = Call("from_bits", o, NoField, w, Zero)
    /\ UNCHANGED <<fault, csr, issued>>

\* o.bits()
Bits(o) ==
    /\ Running
    /\ view[o] # NoView
    /\ last' = Call("bits", o, NoField, Zero, bits(view[o]))
    /\ UNCHANGED <<view, orig, sets, fault, csr, issued>>

\* o.f()
Get(o, f) ==
    /\ Running
    /\ f \in Fields(view[o].reg)
    /\ LET r == getter(view[o], f)
       IN  /\ last' = Call("get", o, f, Zero, r.val)
           /\ fault' = r.panic
    /\ UNCHANGED <<view, orig, sets, csr, issued>>

\* o.set_f(val)
Set(o, f, val) ==
    /\ Running
    /\ f \in Fields(view[o].reg)
    /\ LET r == setter(view[o], f, val)
       IN  /\ view' = store(view, o, r.view)
           /\ fault' = r.panic
           /\ sets' = IF r.panic = NoPanic
                      THEN [sets EXCEPT ![o] =
                              [n \in DOMAIN sets[o] \cup {f.name} |->
                                  IF n = f.name THEN val ELSE sets[o][n]]]
                      ELSE sets
    /\ last' = Call("set", o, f, val, Zero)
    /\ UNCHANGED <<orig, csr, issued>>

\* let p = o;  (the views are Copy) and let p = o.clone();
Copy(o, p) ==
    /\ Running
    /\ o # p
    /\ view[o] # NoView
    /\ view[p] = NoView
    /\ view' = store(view, p, view[o])
    /\ orig' = [orig EXCEPT ![p] = orig[o]]
    /\ sets' = [sets EXCEPT ![p] = sets[o]]
    /\ last' = Call("copy", p, NoField, Zero, Zero)
    /\ UNCHANGED <<fault, csr, issued>>

\* E::from(x), called directly
Decode(e, x) ==
    /\ Running
    /\ LET r == from(e, x)
       IN  /\ last' = Call("from", "-", [NoField EXCEPT !.enum = e], x, r.val)
           /\ fault' = r.panic
    /\ UNCHANGED <<view, orig, sets, csr, issued>>

\* A CSR instruction, as it is executed.
Instr(op, addr, word) == [op |-> op, addr |-> addr, word |-> word]

\* (mutant) a write that swaps: the view takes the register's old word
Write_swap(o) ==
    /\ Running
    /\ view[o] # NoView
    /\ LET addr == Address[view[o].reg].write
       IN  /\ csr' = csrrw(csr, addr, view[o].bits)
           /\ issued' = Append(issued, Instr("csrrw", addr, view[o].bits))
           /\ view' = store(view, o, [view[o] EXCEPT !.bits = csr[addr]])
    /\ last' = Call("write", o, NoField, view[o].bits, Zero)
    /\ UNCHANGED <<orig, sets, fault>>

\* (mutant) a write that commits only while the register still holds the
\* word the view was obtained from
Write_guarded(o) ==
    /\ Running
    /\ view[o] # NoView
    /\ LET addr == Address[view[o].reg].write
           fresh == csr[addr] = orig[o] \/ issued = <<>>
       IN  /\ csr' = IF fresh THEN csrrw(csr, addr, view[o].bits) ELSE csr
           /\ issued' = Append(issued, Instr("csrrw", addr, csr'[addr]))
    /\ last' = Call("write", o, NoField, view[o].bits, Zero)
    /\ UNCHANGED <<view, orig, sets, fault>>

\* o.write(): unsafe { _write(self.bits) }
Write(o) ==
    /\ Running
    /\ view[o] # NoView
    /\ LET addr == Address[view[o].reg].write
       IN  /\ csr' = csrrw(csr, addr, view[o].bits)
           /\ issued' = Append(issued, Instr("csrrw", addr, view[o].bits))
    /\ last' = Call("write", o, NoField, view[o].bits, Zero)
    /\ UNCHANGED <<view, orig, sets, fault>>

\* (mutant) a read served from the first value ever read: the second reader
\* gets the word the first reader got
Read_stale(o, r) ==
    /\ Running
    /\ view[o] = NoView
    /\ LET held == {p \in Owners : view[p].reg = r}
           word == IF held = {} THEN csrrs_x0(csr, Address[r].read)
                   ELSE orig[CHOOSE p \in held : TRUE]
       IN  /\ view' = store(view, o, [reg |-> r, bits |-> word])
           /\ orig' = [orig EXCEPT ![o] = word]
           /\ last' = Call("read", o, NoField, Zero, word)
    /\ sets' = [sets EXCEPT ![o] = NoSets]
    /\ UNCHANGED <<fault, csr, issued>>

\* let o = r::read();  read_csr_as!: R { bits: unsafe { _read() } }
Read(o, r) ==
    /\ Running
    /\ view[o] = NoView
    /\ LET word == csrrs_x0(csr, Address[r].read)
       IN  /\ view' = store(view, o, [reg |-> r, bits |-> word])
           /\ orig' = [orig EXCEPT ![o] = word]
           /\ last' = Call("read", o, NoField, Zero, word)
    /\ sets' = [sets EXCEPT ![o] = NoSets]
    /\ UNCHANGED <<fault, csr, issued>>

\* (mutant) views as a cache of the register: set_n() also sets the bit in
\* every view of the module's type
SetCsr_through(r, f) ==
    /\ Running
    /\ f \in SetClearOps(r)
    /\ LET addr == Address[r].set
       IN  /\ csr' = csrrs(csr, addr, f.mask)
           /\ issued' = Append(issued, Instr("csrrs", addr, f.mask))
    /\ view' = [o \in DOMAIN view |->
                  IF view[o].reg = r
                  THEN [view[o] EXCEPT !.bits = Or(@, f.mask)]
                  ELSE view[o]]
    /\ last' = Call("set_csr", r, [NoField EXCEPT !.name = f.name], f.mask, Zero)
    /\ UNCHANGED <<orig, sets, fault>>

\* r::set_n(): unsafe { _set(mask) }
SetCsr(r, f) ==
    /\ Running
    /\ f \in SetClearOps(r)
    /\ LET addr == Address[r].set
       IN  /\ csr' = csrrs(csr, addr, f.mask)
           /\ issued' = Append(issued, Instr("csrrs", addr, f.mask))
    /\ last' = Call("set_csr", r, [NoField EXCEPT !.name = f.name], f.mask, Zero)
    /\ UNCHANGED <<view, orig, sets, fault>>

\* r::clear_n(): unsafe { _clear(mask) }
ClearCsr(r, f) ==
    /\ Running
    /\ f \in SetClearOps(r)
    /\ LET addr == Address[r].clear
       IN  /\ csr' = csrrc(csr, addr, f.mask)
           /\ issued' = Append(issued, Instr("csrrc", addr, f.mask))
    /\ last' = Call("clear_csr", r, [NoField EXCEPT !.name = f.name], f.mask, Zero)
    /\ UNCHANGED <<view, orig, sets, fault>>

\* m::write(bits), of a module without a view type (write_csr_as_usize!)
WriteUsize(m, w) ==
    /\ Running
    /\ m \in UsizeRegs
    /\ LET addr == Address[m].write
       IN  /\ csr' = csrrw(csr, addr, w)
           /\ issued' = Append(issued, Instr("csrrw", addr, w))
    /\ last' = Call("write_usize", m, NoField, w, Zero)
    /\ UNCHANGED <<view, orig, sets, fault>>

\* The setter budget of one view.
MaySet(o, f) == f.name \in DOMAIN sets[o] \/ Cardinality(DOMAIN sets[o]) < MaxSets

\* One owner, one view: construction, the raw value, getters and setters.
Next ==
    \/ \E r \in Regs, w \in Words : FromBits("a", r, w)
    \/ Bits("a")
    \/ \E f \in Fields(view["a"].reg) : Get("a", f)
    \/ \E f \in Fields(view["a"].reg) : \E val \in Args(f) :
            MaySet("a", f) /\ Set("a", f, val)

Spec == Init /\ [][Next]_vars

\* The enumerations' `from`, called directly on every code up to MaxCode.
NextFrom == \E e \in Enums, x \in 0 .. MaxCode : Decode(e, x)

SpecFrom == Init /\ [][NextFrom]_vars

\* One Hgatp view, any number of setter calls.
NextHgatp ==
    \/ \E w \in Words : FromBits("a", "Hgatp", w)
    \/ Bits("a")
    \/ \E f \in Fields(view["a"].reg) : Get("a", f)
    \/ \E f \in Fields(view["a"].reg) : \E val \in Args(f) : Set("a", f, val)

SpecHgatp == Init /\ [][NextHgatp]_vars

\* One Hedeleg view: setter calls on up to MaxHedelegSets of its fields, in
\* any order and any number of times.
MaySetHedeleg(f) ==
    f.name \in DOMAIN sets["a"] \/ Cardinality(DOMAIN sets["a"]) < MaxHedelegSets

NextHedeleg ==
    \/ \E w \in Words : FromBits("a", "Hedeleg", w)
    \/ \E f \in Fields(view["a"].reg) : \E val \in Args(f) :
            MaySetHedeleg(f) /\ Set("a", f, val)

SpecHedeleg == Init /\ [][NextHedeleg]_vars

\* Two owners, each with a view of its own, of two of the register types of
\* test_register_independence: owner a builds its view from
\* 0x123456789ABCDEF0, owner b from 0 or as a copy of a's (or a as a copy
\* of b's), and either calls setters.
AliasRegs == {"Hstatus", "Hgatp"}

AliasWord(o) == IF o = "a" THEN Digits ELSE Zero

\* The setter budget of the two views together.
MaySetEither(o, f) ==
    \/ f.name \in DOMAIN sets[o]
    \/ Cardinality(DOMAIN sets["a"]) + Cardinality(DOMAIN sets["b"]) < MaxSets

NextAlias ==
    \/ \E o \in Owners, r \in AliasRegs : FromBits(o, r, AliasWord(o))
    \/ \E o, p \in Owners : Copy(o, p)
    \/ \E o \in Owners : \E f \in Fields(view[o].reg) : \E val \in Args(f) :
            MaySetEither(o, f) /\ Set(o, f, val)

SpecAlias == Init /\ [][NextAlias]_vars

\* The budget of CSR-changing instructions.
MayIssue == Len(issued) < MaxCsrOps

\* The budget of commits where a view is committed more than once.
MayCommit == Len(issued) < MaxCommits

\* The CSR file holds whatever the hardware and earlier software left in
\* it: here the same word, any of W, in every register.
InitWith(W) ==
    /\ view = [o \in Owners |-> NoView]
    /\ orig = [o \in Owners |-> Zero]
    /\ sets = [o \in Owners |-> NoSets]
    /\ fault = NoPanic
    /\ \E w \in W : csr = [a \in Addresses |-> w]
    /\ issued = <<>>
    /\ last = [op |-> "none", owner |-> "-", field |-> NoField, arg |-> Zero,
               ret |-> Zero, pre |-> view, was |-> csr]

InitCsr == InitWith(Words)

\* Commit and read back: owner a builds a view of any type and commits it,
\* owner b reads any register.
NextCommit ==
    \/ \E r \in Regs, w \in Words : FromBits("a", r, w)
    \/ MayIssue /\ Write("a")
    \/ \E r \in Regs : Read("b", r)

SpecCommit == InitCsr /\ [][NextCommit]_vars

\* The module-level atomic functions, MaxCsrOps calls in all, on registers
\* holding any of Words.
NextAtomic ==
    \/ MayIssue /\ \E r \in Regs : \E f \in SetClearOps(r) : SetCsr(r, f)
    \/ MayIssue /\ \E r \in Regs : \E f \in SetClearOps(r) : ClearCsr(r, f)

SpecAtomic == InitCsr /\ [][NextAtomic]_vars

\* The physical registers of all 21 modules, all holding 0 or all holding
\* 0x123456789ABCDEF0: owner a builds a view from 0xDEADBEEFCAFEBABE and
\* commits it, and the module-level functions (atomic set/clear, raw write)
\* are called, MaxCsrOps CSR changes in all.
InitAddress == InitWith({Zero, Digits})

NextAddress ==
    \/ \E r \in Regs : FromBits("a", r, DeadBeef)
    \/ MayIssue /\ Write("a")
    \/ MayIssue /\ \E r \in Regs : \E f \in SetClearOps(r) : SetCsr(r, f)
    \/ MayIssue /\ \E r \in Regs : \E f \in SetClearOps(r) : ClearCsr(r, f)
    \/ MayIssue /\ \E m \in UsizeRegs : WriteUsize(m, DeadBeef)

SpecAddress == InitAddress /\ [][NextAddress]_vars

\* Mutate and commit again: owner a builds a view of any type from
\* 0x123456789ABCDEF0 and calls its setters, each at most once, and write()
\* in any order.
\* The setter budget of a view whose setters are each called at most once.
MaySetOnce(o, f) ==
    f.name \notin DOMAIN sets[o] /\ Cardinality(DOMAIN sets[o]) < MaxSets

NextRecommit ==
    \/ \E r \in Regs : FromBits("a", r, Digits)
    \/ \E f \in Fields(view["a"].reg) : \E val \in Args(f) :
            MaySetOnce("a", f) /\ Set("a", f, val)
    \/ MayCommit /\ Write("a")

SpecRecommit == Init /\ [][NextRecommit]_vars

\* One Hstatus view and the four setters of test_hstatus_multiple_fields,
\* vsxl, vtsr, vgein and hu, called any number of times.
LayoutFields == {"vsxl", "vtsr", "vgein", "hu"}

NextHstatus ==
    \/ \E w \in Words : FromBits("a", "Hstatus", w)
    \/ \E f \in Fields(view["a"].reg) : \E val \in Args(f) :
            f.name \in LayoutFields /\ Set("a", f, val)

SpecHstatus == Init /\ [][NextHstatus]_vars

\* Two owners and one physical register, hie: each owner reads the
\* register into a view of its own, calls setters, each at most once, and
\* commits; the steps of the two interleave freely, MaxCommits commits in
\* all.
RaceReg == "Hie"

NextRace ==
    \/ \E o \in Owners : Read(o, RaceReg)
    \/ \E o \in Owners : \E f \in Fields(view[o].reg) : \E val \in Args(f) :
            MaySetOnce(o, f) /\ Set(o, f, val)
    \/ MayCommit /\ \E o \in Owners : Write(o)

SpecRace == Init /\ [][NextRace]_vars

\* A view and the physical register it came from: owner a obtains an Hie
\* view (read(), or from_bits of 0x123456789ABCDEF0) and calls its setters,
\* each at most once, while the register is changed under it by owner b
\* committing a view of 0xDEADBEEFCAFEBABE and by the module's atomic
\* functions, MaxCsrOps changes in all.
NextSnapshot ==
    \/ Read("a", RaceReg)
    \/ FromBits("a", RaceReg, Digits)
    \/ \E f \in Fields(view["a"].reg) : \E val \in Args(f) :
            MaySetOnce("a", f) /\ Set("a", f, val)
    \/ FromBits("b", RaceReg, DeadBeef)
    \/ MayIssue /\ Write("b")
    \/ MayIssue /\ \E f \in SetClearOps(RaceReg) : SetCsr(RaceReg, f)
    \/ MayIssue /\ \E f \in SetClearOps(RaceReg) : ClearCsr(RaceReg, f)

SpecSnapshot == Init /\ [][NextSnapshot]_vars

\* Serialized read-modify-write: the caller lets each owner run its
\* read() -> setters -> write() sequence on a register with no other access
\* in between.  An owner is inside its sequence from its read() up to its
\* write(); the last call tells which owner that is.
SerialRegs == {"Hie", "Hgatp"}

InSequence == last.op \in {"read", "set"}

NextSerial ==
    \/ ~InSequence /\ \E o \in Owners, r \in SerialRegs : Read(o, r)
    \/ InSequence /\ \E f \in Fields(view[last.owner].reg) : \E val \in Args(f) :
            MaySetOnce(last.owner, f) /\ Set(last.owner, f, val)
    \/ InSequence /\ Write(last.owner)

SpecSerial == InitCsr /\ [][NextSerial]_vars

\* Atomic operations one after another: the set_X/clear_X functions of hie
\* and hvip, called in any order by whichever owner, MaxCommits calls in
\* all.  Each call is one csrrs or csrrc instruction, so an interleaving of
\* two callers is an order of the instructions.
AtomicRegs == {"Hie", "Hvip"}

NextAtomicPair ==
    \/ MayCommit /\ \E r \in AtomicRegs : \E f \in SetClearOps(r) : SetCsr(r, f)
    \/ MayCommit /\ \E r \in AtomicRegs : \E f \in SetClearOps(r) : ClearCsr(r, f)

SpecAtomicPair == InitCsr /\ [][NextAtomicPair]_vars

\* The two ways to change a flag of a physical register, each run alone on
\* registers holding any of Words: a module-level set_X/clear_X, or owner a
\* reading the register into a view, calling setters, each at most once,
\* and committing; MaxCsrOps CSR changes in all.
NextPaths ==
    \/ issued = <<>> /\ \E r \in Regs : Read("a", r)
    \/ \E f \in Fields(view["a"].reg) : \E val \in Args(f) :
            MaySetOnce("a", f) /\ Set("a", f, val)
    \/ MayIssue /\ Write("a")
    \/ (MayIssue /\ view["a"] = NoView)
            /\ \E r \in Regs : \E f \in SetClearOps(r) : SetCsr(r, f)
    \/ (MayIssue /\ view["a"] = NoView)
            /\ \E r \in Regs : \E f \in SetClearOps(r) : ClearCsr(r, f)

SpecPaths == InitCsr /\ [][NextPaths]_vars

\* The four view types with an enumerated field: owner a obtains a view
\* from any word (from_bits) or from a register holding 0 or all ones
\* (read()), and calls the enumerated getter and the setters, with values
\* that fit their field, any number of times on up to MaxSets fields.
EnumRegs == {"Hgatp", "Vsatp", "Hstatus", "Vsstatus"}

InitLegal == InitWith({Zero, AllOnes})

\* Whether val passes the assertion of the setter of f.
InRange(f, val) ==
    f.kind = "scalar" => fits(val, f.start, f.end)

NextLegal ==
    \/ \E r \in EnumRegs, w \in Words : FromBits("a", r, w)
    \/ \E r \in EnumRegs : Read("a", r)
    \/ \E f \in Fields(view["a"].reg) : f.kind = "enum" /\ Get("a", f)
    \/ \E f \in Fields(view["a"].reg) : \E val \in Args(f) :
            (MaySet("a", f) /\ InRange(f, val)) /\ Set("a", f, val)

SpecLegal == InitLegal /\ [][NextLegal]_vars

\* The same setter calls in two orders.  Owner a builds a view of any type
\* and calls setters of MaxReordered distinct fields, with values that fit,
\* from the lowest field up; owner b then builds a view of the same type
\* from the same word and makes a's calls again in whatever order.
ReorderWords == Words

\* Whether f lies above every field owner o has set.
Above(o, f) ==
    \A g \in Fields(view[o].reg) : g.name \in DOMAIN sets[o] => g.start < f.start

Reordered(o) == Cardinality(DOMAIN sets[o])

NextReorder ==
    \/ \E r \in Regs, w \in ReorderWords : FromBits("a", r, w)
    \/ \E f \in Fields(view["a"].reg) : \E val \in Args(f) :
            (/\ view["b"] = NoView
             /\ Reordered("a") < MaxReordered
             /\ Above("a", f)
             /\ InRange(f, val)) /\ Set("a", f, val)
    \/ Reordered("a") = MaxReordered /\ FromBits("b", view["a"].reg, orig["a"])
    \/ \E f \in Fields(view["b"].reg) :
            (/\ f.name \in DOMAIN sets["a"]
             /\ f.name \notin DOMAIN sets["b"]) /\ Set("b", f, sets["a"][f.name])

SpecReorder == Init /\ [][NextReorder]_vars

\* The two mode fields side by side: owner a builds an Hgatp view and owner
\* b a Vsatp view from the same word, with any of the 16 codes in bits
\* 60..63 over all-zero or all-one low bits, and either calls mode() and
\* set_mode.
ModeCodes == 0 .. (2 ^ 4 - 1)

ModeWords ==
    {Or(Shl(ToBits(c), 60), low) : c \in ModeCodes, low \in {Zero, Ones(60)}}

NextModes ==
    \/ \E w \in ModeWords : FromBits("a", "Hgatp", w)
    \/ view["a"] # NoView /\ FromBits("b", "Vsatp", orig["a"])
    \/ \E o \in Owners : \E f \in Fields(view[o].reg) :
            f.name = "mode" /\ Get(o, f)
    \/ \E o \in Owners : \E f \in Fields(view[o].reg) : \E val \in Args(f) :
            f.name = "mode" /\ Set(o, f, val)

SpecModes == Init /\ [][NextModes]_vars

---------------------------------------------------------------------------
(* Properties                                                              *)

\* The field of word w at bits lo..hi (inclusive), as a word of its own,
\* read off bit by bit.
FieldAt(w, lo, hi) == {i - lo : i \in {j \in w : lo <= j /\ j <= hi}}

\* The bits of word w outside lo..hi.
Outside(w, lo, hi) == {j \in w : j < lo \/ j > hi}

\* Whether value v has no 1 bit at or above bit n.
Within(v, n) == \A i \in v : i < n

\* C1: for every register view type and every word w, from_bits(w).bits()
\* is w, also when an enumerated field of w holds an illegal code.
C1_RoundTrip ==
    \A o \in Owners :
        (last.op = "bits" /\ last.owner = o /\ sets[o] = NoSets)
            => last.ret = orig[o]

\* C1 witness: bits() of an Hstatus view built from 0x123456789ABCDEF0, whose
\* vsxl field holds the illegal code 0, returned that word.
C1_Witness ==
    /\ last.op = "bits"
    /\ view["a"].reg = "Hstatus"
    /\ sets["a"] = NoSets
    /\ orig["a"] = Digits
    /\ FieldAt(orig["a"], 32, 33) = Zero
    /\ last.ret = Digits

\* C2: a setter of field A called with a legal value leaves the bits, and
\* so the decoded value, of every other field B of the register unchanged.
C2_FieldIsolation ==
    (last.op = "set" /\ fault = NoPanic) =>
        LET after == view[last.owner]
            before == last.pre[last.owner]
            A == last.field
        IN  \A B \in Fields(after.reg) \ {A} :
                /\ FieldAt(after.bits, B.start, B.end - 1)
                     = FieldAt(before.bits, B.start, B.end - 1)
                /\ getter(after, B) = getter(before, B)

\* C2 witness: set_vgein(0) on an all-ones Hstatus view has cleared vgein
\* while vsxl still decodes to Vsxl128 and the flag hu is still set.
C2_Witness ==
    /\ last.op = "set"
    /\ fault = NoPanic
    /\ view["a"].reg = "Hstatus"
    /\ last.field.name = "vgein"
    /\ last.arg = Zero
    /\ orig["a"] = AllOnes
    /\ FieldAt(view["a"].bits, 12, 17) = Zero
    /\ FieldAt(view["a"].bits, 32, 33) = Ones(2)
    /\ 9 \in view["a"].bits

\* The numeric code the claims give each variant, and each enumeration's
\* legal codes.
Code(v) ==
    CASE v.name = "Bare" -> 0
      [] v.name = "Sv39x4" -> 8
      [] v.name = "Sv48x4" -> 9
      [] v.name \in {"Vsxl32", "Uxl32"} -> 1
      [] v.name \in {"Vsxl64", "Uxl64"} -> 2
      [] v.name \in {"Vsxl128", "Uxl128"} -> 3

LegalCodes(e) ==
    IF e \in {"hgatp::HgatpValues", "vsatp::HgatpValues"} THEN {0, 8, 9} ELSE {1, 2, 3}

\* C3: starting from Hgatp::from_bits(0), once set_mode(m), set_vmid(v) and
\* set_ppn(p) have been called the raw value is (code(m) << 60) | (v << 44) | p;
\* Sv48x4, 0x2A3F and 0x123456789AB give 0x92A3F123456789AB.
C3_HgatpEncoding ==
    (/\ view["a"].reg = "Hgatp"
     /\ orig["a"] = Zero
     /\ DOMAIN sets["a"] = {"mode", "vmid", "ppn"})
    => LET m == sets["a"]["mode"]
           v == sets["a"]["vmid"]
           p == sets["a"]["ppn"]
       IN  /\ Within(v, 14)
           /\ Within(p, 44)
           /\ view["a"].bits = Or(Or(Shl(ToBits(Code(m)), 60), Shl(v, 44)), p)
           /\ (m.name = "Sv48x4" /\ v = TestVmid /\ p = TestPpn)
                => view["a"].bits = Hex(\h92A3, \hF123, \h4567, \h89AB)

\* C3 witness: the three setters have been called with Sv48x4, 0x2A3F and
\* 0x123456789AB on a view built from 0, set_ppn last.
C3_Witness ==
    /\ view["a"].reg = "Hgatp"
    /\ orig["a"] = Zero
    /\ fault = NoPanic
    /\ DOMAIN sets["a"] = {"mode", "vmid", "ppn"}
    /\ sets["a"]["mode"].name = "Sv48x4"
    /\ sets["a"]["vmid"] = TestVmid
    /\ sets["a"]["ppn"] = TestPpn
    /\ last.op = "set"
    /\ last.field.name = "ppn"

\* C4: every legal code of an enumeration decodes, through `from`, to one
\* variant of that enumeration; casting the variant back gives the code;
\* distinct legal codes give distinct variants.
C4_EnumTotality ==
    /\ (last.op = "from" /\ last.arg \in LegalCodes(last.field.enum))
         => /\ fault = NoPanic
            /\ last.ret \in Variants(last.field.enum)
            /\ as_usize(last.ret) = last.arg
            /\ Code(last.ret) = last.arg
    /\ \A e \in Enums : \A c, d \in LegalCodes(e) :
            c # d => from(e, c).val # from(e, d).val

\* C4 witness: VsxlValues::from(3) returned Vsxl128.
C4_Witness ==
    /\ last.op = "from"
    /\ last.field.enum = "VsxlValues"
    /\ last.arg = 3
    /\ fault = NoPanic
    /\ last.ret = Variant("VsxlValues", "Vsxl128")

\* C5: `from` on a code outside the enumeration's legal set panics (the
\* illegal-field-value fault); it returns no variant and no default.
C5_IllegalCodeFaults ==
    (last.op = "from" /\ last.arg \notin LegalCodes(last.field.enum))
        => /\ fault = Unreachable
           /\ last.ret \notin Variants(last.field.enum)

\* C5 witness: hgatp's HgatpValues::from(7) panicked.
C5_Witness ==
    /\ last.op = "from"
    /\ last.field.enum = "hgatp::HgatpValues"
    /\ last.arg = 7
    /\ fault = Unreachable

\* C5 witness, second case: VsxlValues::from(0) panicked.
C5_WitnessVsxl ==
    /\ last.op = "from"
    /\ last.field.enum = "VsxlValues"
    /\ last.arg = 0
    /\ fault = Unreachable

\* The sub-range the claims give the enumerated field of each register:
\* bits 60-63 for the mode of Hgatp and Vsatp, bits 32-33 for vsxl and uxl.
EnumLow(reg) == IF reg \in {"Hgatp", "Vsatp"} THEN 60 ELSE 32
EnumHigh(reg) == IF reg \in {"Hgatp", "Vsatp"} THEN 63 ELSE 33

\* C6: an enumerated getter of a view returns the variant whose code is the
\* field's sub-range of raw when that code is legal, and panics exactly when
\* the sub-range holds an illegal code.
C6_EnumGetter ==
    (last.op = "get" /\ last.field.kind = "enum")
        => LET self == view[last.owner]
               code == ToNat(FieldAt(self.bits, EnumLow(self.reg), EnumHigh(self.reg)))
           IN  IF code \in LegalCodes(last.field.enum)
               THEN /\ fault = NoPanic
                    /\ last.ret \in Variants(last.field.enum)
                    /\ Code(last.ret) = code
               ELSE fault = Unreachable

\* C6 witness: Hstatus::from_bits(0).vsxl() panicked.
C6_Witness ==
    /\ last.op = "get"
    /\ view["a"].reg = "Hstatus"
    /\ last.field.name = "vsxl"
    /\ view["a"].bits = Zero
    /\ fault = Unreachable

\* C6 witness, legal case: mode() of an Hgatp view whose bits 60-63 hold 9
\* returned Sv48x4.
C6_WitnessLegal ==
    /\ last.op = "get"
    /\ view["a"].reg = "Hgatp"
    /\ last.field.name = "mode"
    /\ FieldAt(view["a"].bits, 60, 63) = {0, 3}
    /\ fault = NoPanic
    /\ last.ret.name = "Sv48x4"

\* Whether the view holds an illegal code in an enumerated field.
HoldsIllegalCode(self) ==
    \E f \in Fields(self.reg) :
        /\ f.kind = "enum"
        /\ ToNat(FieldAt(self.bits, EnumLow(self.reg), EnumHigh(self.reg)))
             \notin LegalCodes(f.enum)

\* C7: from_bits validates nothing: from_bits, bits() and every getter of a
\* flag or scalar return without panic on every word; the illegal-code panic
\* comes only from the getter of the enumerated field itself.
C7_LazyValidation ==
    /\ (\/ last.op \in {"from_bits", "bits"}
        \/ (last.op = "get" /\ last.field.kind # "enum"))
         => fault = NoPanic
    /\ fault = Unreachable
         => /\ last.op = "get"
            /\ last.field.kind = "enum"
            /\ HoldsIllegalCode(view[last.owner])

\* C7 witness: vmid() of Hgatp::from_bits(0xDEADBEEFCAFEBABE), whose mode
\* field holds the illegal code 13, returned 0x2ADB.
C7_Witness ==
    /\ last.op = "get"
    /\ view["a"] = [reg |-> "Hgatp", bits |-> DeadBeef]
    /\ HoldsIllegalCode(view["a"])
    /\ last.field.name = "vmid"
    /\ fault = NoPanic
    /\ last.ret = ToBits(\h2ADB)

\* Whether the last call was a scalar setter given a value wider than the
\* field.
TooWide(call) ==
    /\ call.op = "set"
    /\ call.field.kind = "scalar"
    /\ ~Within(call.arg, call.field.end - call.field.start)

\* C8 as claimed: a scalar setter given a value wider than its field raises
\* no error, writes the low bits of the value that fit into the field and
\* leaves every bit outside the field unchanged.
C8_TooWideIsTruncated ==
    TooWide(last) =>
        LET after == view[last.owner]
            before == last.pre[last.owner]
            f == last.field
        IN  /\ fault = NoPanic
            /\ FieldAt(after.bits, f.start, f.end - 1)
                 = And(last.arg, Ones(f.end - f.start))
            /\ Outside(after.bits, f.start, f.end - 1)
                 = Outside(before.bits, f.start, f.end - 1)

\* C8 as amended: a scalar setter given a value wider than its field panics
\* with "value does not fit into bit range" and writes nothing: no bit of
\* the view changes, inside the field or outside it.
C8_TooWidePanics ==
    TooWide(last) =>
        /\ fault = DoesNotFit
        /\ view = last.pre

\* C8 witness: set_vgein(0x40) on an all-ones Hstatus view panicked and the
\* view is still all ones.
C8_Witness ==
    /\ last.op = "set"
    /\ view["a"].reg = "Hstatus"
    /\ last.field.name = "vgein"
    /\ last.arg = Bit(6)
    /\ fault = DoesNotFit
    /\ view["a"].bits = AllOnes

\* The width the claims give each multi-bit scalar field.
ClaimedWidth(reg, name) ==
    CASE reg = "Hstatus" /\ name = "vgein" -> 6
      [] reg = "Hgatp" /\ name = "vmid" -> 14
      [] reg = "Hgatp" /\ name = "ppn" -> 44
      [] reg = "Vsatp" /\ name = "asid" -> 16
      [] reg = "Vsatp" /\ name = "ppn" -> 44
      [] reg = "Vsstatus" /\ name = "sd" -> 4
      [] reg = "Vsstatus" /\ name = "xs" -> 2
      [] reg = "Vsstatus" /\ name = "fs" -> 2
      [] reg = "Vscause" /\ name = "code" -> 63
      [] reg = "Vstvec" /\ name = "base" -> 62
      [] reg = "Vstvec" /\ name = "mode" -> 2
      [] OTHER -> 0

\* C9: for a scalar field of width n, from any starting raw value, the
\* getter called after the setter was given v in 0..2^n-1 returns exactly v,
\* for 0 and the all-ones value as for the values in between.
C9_SetThenGet ==
    \A o \in Owners :
        (/\ last.op = "get"
         /\ last.owner = o
         /\ last.field.kind = "scalar"
         /\ last.field.name \in DOMAIN sets[o])
        => LET n == ClaimedWidth(view[o].reg, last.field.name)
               v == sets[o][last.field.name]
           IN  /\ n > 1
               /\ last.field.end - last.field.start = n
               /\ Within(v, n)
               /\ fault = NoPanic
               /\ last.ret = v
               /\ FieldAt(view[o].bits, last.field.start, last.field.start + n - 1) = v

\* C9 witness: code() of a Vscause view built from 0, after set_code of the
\* all-ones 63-bit value, returned that value.
C9_Witness ==
    /\ last.op = "get"
    /\ view["a"].reg = "Vscause"
    /\ orig["a"] = Zero
    /\ last.field.name = "code"
    /\ "code" \in DOMAIN sets["a"]
    /\ sets["a"]["code"] = Ones(63)
    /\ last.ret = Ones(63)

\* C9 witness, minimum: vmid() of an all-ones Hgatp view after set_vmid(0)
\* returned 0.
C9_WitnessMin ==
    /\ last.op = "get"
    /\ view["a"].reg = "Hgatp"
    /\ orig["a"] = AllOnes
    /\ last.field.name = "vmid"
    /\ "vmid" \in DOMAIN sets["a"]
    /\ sets["a"]["vmid"] = Zero
    /\ last.ret = Zero

\* C10: views are independent values: a setter called on one view changes
\* neither the raw value nor a decoded field of any other view, of the same
\* register type or another, and copying a view leaves the original as it
\* was and gives the copy the same raw value.
C10_NoAliasing ==
    \A o \in Owners :
        /\ (last.op = "set" /\ last.owner = o)
             => \A p \in Owners \ {o} :
                   /\ view[p] = last.pre[p]
                   /\ \A g \in Fields(view[p].reg) :
                          getter(view[p], g) = getter(last.pre[p], g)
        /\ (last.op = "copy" /\ last.owner = o)
             => \A p \in Owners \ {o} :
                   /\ view[p] = last.pre[p]
                   /\ view[o] = view[p]

\* C10 witness: b holds a copy of a's Hstatus view; set_vgein(0x3F) on a
\* has changed a's raw value and b still holds the word the views were
\* built from.
C10_Witness ==
    /\ last.op = "set"
    /\ last.owner = "a"
    /\ fault = NoPanic
    /\ view["a"].reg = "Hstatus"
    /\ view["b"].reg = "Hstatus"
    /\ orig["b"] = Digits
    /\ sets["b"] = NoSets
    /\ last.field.name = "vgein"
    /\ view["a"].bits # Digits
    /\ view["b"].bits = Digits

\* C10 witness, two register types: set_mode(Sv48x4) on b's Hgatp view has
\* changed it while a's Hstatus view is as built.
C10_WitnessTypes ==
    /\ last.op = "set"
    /\ last.owner = "b"
    /\ fault = NoPanic
    /\ view["a"] = [reg |-> "Hstatus", bits |-> Digits]
    /\ view["b"].reg = "Hgatp"
    /\ last.field.name = "mode"
    /\ view["b"].bits = Hex(\h9000, 0, 0, 0)

---------------------------------------------------------------------------
(* Properties of the physical registers                                    *)

\* The CSR number of each register module, as the specification lists them.
FixedAddress ==
    [ Hstatus |-> \h600, Hedeleg |-> \h602, Hideleg |-> \h603, Hie |-> \h604,
      htimedelta |-> \h605, hgeie |-> \h607, htimedeltah |-> \h615,
      Hip |-> \h644, Hvip |-> \h645, htinst |-> \h64A, Hgatp |-> \h680,
      hgeip |-> \hE12, Vsstatus |-> \h200, Vsie |-> \h204, Vstvec |-> \h205,
      vsscratch |-> \h240, vsepc |-> \h241, Vscause |-> \h242,
      vstval |-> \h243, Vsip |-> \h244, Vsatp |-> \h280 ]

\* C11 (commit): right after o.write() the physical register at the fixed
\* address of o's register holds exactly o.bits(), whatever it held before;
\* a read() returns a view of the word the register holds, so a read() of a
\* register that follows a commit of it, with no CSR change in between,
\* returns a view whose bits() is the committed view's.
C11_Commit ==
    /\ last.op = "write" =>
          csr[FixedAddress[view[last.owner].reg]] = bits(view[last.owner])
    /\ last.op = "read" =>
          /\ bits(view[last.owner])
                = last.was[FixedAddress[view[last.owner].reg]]
          /\ csr = last.was
          /\ (issued # <<>> /\ view["a"].reg = view[last.owner].reg)
                => bits(view[last.owner]) = bits(view["a"])

\* C11 witness: the Hstatus register held 0xFFFFFFFFFFFFFFFF, a committed
\* an Hstatus view of 0xDEADBEEFCAFEBABE, and b's read() has just returned
\* a view of that word.
C11_Witness ==
    /\ last.op = "read"
    /\ last.owner = "b"
    /\ view["a"] = [reg |-> "Hstatus", bits |-> DeadBeef]
    /\ view["b"] = [reg |-> "Hstatus", bits |-> DeadBeef]
    /\ Len(issued) = 1
    /\ csr[\h602] = AllOnes
    /\ csr[\h600] = DeadBeef

\* C11 witness: the commit itself, on Hedeleg, over a register that held
\* 0x123456789ABCDEF0.
C11_WitnessWrite ==
    /\ last.op = "write"
    /\ view["a"] = [reg |-> "Hedeleg", bits |-> AllOnes]
    /\ last.was[\h602] = Digits
    /\ csr[\h602] = AllOnes

\* C12 (commit leaves the view alone): right after o.write() the view's
\* bits() and every decoded field (or decode panic) are what they were
\* right before it, and nothing stops a later setter call or commit.
C12_CommitKeepsView ==
    last.op = "write" =>
        /\ view = last.pre
        /\ bits(view[last.owner]) = bits(last.pre[last.owner])
        /\ \A f \in Fields(view[last.owner].reg) :
              getter(view[last.owner], f) = getter(last.pre[last.owner], f)
        /\ fault = NoPanic

\* C12 witness: an Hgatp view committed, changed by set_vmid(0x2A3F) and
\* committed again: the register has held both raw values.
C12_Witness ==
    /\ last.op = "write"
    /\ view["a"].reg = "Hgatp"
    /\ Len(issued) = 2
    /\ issued[1].word = Digits
    /\ "vmid" \in DOMAIN sets["a"]
    /\ sets["a"]["vmid"] = TestVmid
    /\ issued[2].word = view["a"].bits
    /\ issued[2].word # Digits
    /\ csr[\h680] = view["a"].bits

\* The bit of the view type's flag accessor named n, or -1 when the view
\* type has no such flag.
FlagBit(reg, n) ==
    LET F == {f \in Fields(reg) : f.name = n /\ f.kind = "flag"}
    IN  IF F = {} THEN -1 ELSE (CHOOSE f \in F : TRUE).start

\* C13 (atomic single-bit operations): right after a module-level set_X()
\* the physical register of the module is what it was with the bit of
\* field X set, and right after clear_X() what it was with that bit
\* cleared: the one bit the view's accessor X reads, and no other.
C13_AtomicBit ==
    last.op \in {"set_csr", "clear_csr"} =>
        LET addr == FixedAddress[last.owner]
            i == FlagBit(last.owner, last.field.name)
        IN  /\ i \in AllBits
            /\ last.op = "set_csr" => csr[addr] = last.was[addr] \cup {i}
            /\ last.op = "clear_csr" => csr[addr] = last.was[addr] \ {i}

\* C13 witness: hedeleg::clear_ex12() on a register holding
\* 0x123456789ABCDEF0 leaves 0x123456789ABCCEF0.
C13_Witness ==
    /\ last.op = "clear_csr"
    /\ last.owner = "Hedeleg"
    /\ last.field.name = "ex12"
    /\ last.was[\h602] = Digits
    /\ csr[\h602] = Hex(\h1234, \h5678, \h9ABC, \hCEF0)

\* C13 witness: vscause::set_interrupt() on a register holding
\* 0x123456789ABCDEF0 leaves 0x923456789ABCDEF0.
C13_WitnessSet ==
    /\ last.op = "set_csr"
    /\ last.owner = "Vscause"
    /\ last.field.name = "interrupt"
    /\ last.was[\h242] = Digits
    /\ csr[\h242] = Hex(\h9234, \h5678, \h9ABC, \hDEF0)

\* The bit positions the specification gives the Hedeleg flags.
HedelegBits == (0 .. 8) \cup {12, 13, 15}

\* C14 (Hedeleg reserved bits): whatever setters have been called on an
\* Hedeleg view, its bits 9, 10, 11, 14 and 16..63 are those of the word it
\* was built from, and each setter call changes at most bits 0..8, 12, 13
\* and 15.
C14_HedelegReserved ==
    view["a"].reg = "Hedeleg" =>
        /\ view["a"].bits \ HedelegBits = orig["a"] \ HedelegBits
        /\ last.op = "set" =>
              view["a"].bits \ HedelegBits = last.pre["a"].bits \ HedelegBits

\* C14 witness: on a view built from 0x123456789ABCDEF0, set_ex12(false)
\* and set_ex8(true) have been called: bits 12 and 8 differ from the
\* starting value and nothing else does.
C14_Witness ==
    /\ view["a"].reg = "Hedeleg"
    /\ orig["a"] = Digits
    /\ last.op = "set"
    /\ DOMAIN sets["a"] = {"ex8", "ex12"}
    /\ view["a"].bits = (Digits \ {12}) \cup {8}

\* The bits of field f.
Range(f) == f.start .. (f.end - 1)

\* The ranges the specification gives as examples, first and last bit.
ClaimedRange(reg, name) ==
    CASE reg = "Vsstatus" /\ name = "sd" -> <<60, 63>>
      [] reg = "Vsstatus" /\ name = "uxl" -> <<32, 33>>
      [] reg = "Vsstatus" /\ name = "mxr" -> <<19, 19>>
      [] reg = "Vsstatus" /\ name = "sum" -> <<18, 18>>
      [] reg = "Vsstatus" /\ name = "xs" -> <<15, 16>>
      [] reg = "Vsstatus" /\ name = "fs" -> <<13, 14>>
      [] reg = "Vsstatus" /\ name = "spp" -> <<8, 8>>
      [] reg = "Vsstatus" /\ name = "ube" -> <<6, 6>>
      [] reg = "Vsstatus" /\ name = "spie" -> <<5, 5>>
      [] reg = "Vsstatus" /\ name = "sie" -> <<1, 1>>
      [] reg = "Vscause" /\ name = "interrupt" -> <<63, 63>>
      [] reg = "Vscause" /\ name = "code" -> <<0, 62>>
      [] reg = "Vstvec" /\ name = "base" -> <<2, 63>>
      [] reg = "Vstvec" /\ name = "mode" -> <<0, 1>>
      [] OTHER -> <<>>

\* C15 (field ranges): the accessors of the view type in hand have
\* non-empty bit ranges inside bits 0..63, no two of which share a bit, and
\* equal to the listed ranges for Vsstatus, Vscause and Vstvec; every
\* accessor call is on such a range, and a setter call that returns has
\* changed no bit outside its own range.
C15_DisjointRanges ==
    view["a"] # NoView =>
        LET F == Fields(view["a"].reg)
        IN  /\ \A f \in F : Range(f) # {} /\ Range(f) \subseteq AllBits
            /\ \A f, g \in F : f # g => Range(f) \cap Range(g) = {}
            /\ \A f \in F :
                  ClaimedRange(view["a"].reg, f.name) # <<>>
                    => ClaimedRange(view["a"].reg, f.name)
                          = <<f.start, f.end - 1>>
            /\ last.op \in {"get", "set"} =>
                  /\ last.field \in F
                  /\ Range(last.field) \subseteq AllBits
            /\ (last.op = "set" /\ fault = NoPanic) =>
                  \A i \in AllBits \ Range(last.field) :
                      (i \in view["a"].bits) <=> (i \in last.pre["a"].bits)

\* C15 witness: set_xs(3) on a Vsstatus view of 0 has written bits 15 and
\* 16 and nothing else; fs, on bits 13..14, still reads 0.
C15_Witness ==
    /\ last.op = "set"
    /\ view["a"].reg = "Vsstatus"
    /\ last.field.name = "xs"
    /\ last.pre["a"].bits = Zero
    /\ view["a"].bits = {15, 16}
    /\ fault = NoPanic

\* C16 (unserialized read-modify-write): nothing checks a commit against
\* the register's current value.  Right after o.write() the register holds
\* exactly o's view: the fields o set, and in every other field the bits o
\* read earlier, whatever another owner has committed since.  So when two
\* owners have both read before either commits, the second commit drops
\* the first owner's change.
C16_LostUpdate ==
    (last.op = "write" /\ view[last.owner].reg = RaceReg) =>
        LET o == last.owner
            addr == FixedAddress[RaceReg]
        IN  /\ fault = NoPanic
            /\ csr[addr] = view[o].bits
            /\ \A f \in Fields(RaceReg) :
                  f.name \notin DOMAIN sets[o]
                    => csr[addr] \cap Range(f) = orig[o] \cap Range(f)

\* C16 witness (the lost update): a and b both read hie = 0; a calls
\* set_vssie(true) and commits, so hie = 0x4; b calls set_vstie(true) and
\* commits: hie = 0x40, without the vssie bit a committed.
C16_Witness ==
    /\ last.op = "write"
    /\ last.owner = "b"
    /\ orig["a"] = Zero
    /\ orig["b"] = Zero
    /\ DOMAIN sets["a"] = {"vssie"}
    /\ sets["a"]["vssie"] = TRUE
    /\ DOMAIN sets["b"] = {"vstie"}
    /\ sets["b"]["vstie"] = TRUE
    /\ Len(issued) = 2
    /\ issued[1].word = {2}
    /\ last.was[\h604] = {2}
    /\ csr[\h604] = {6}

\* The module a CSR-changing call acts on.
Target(call) ==
    IF call.op = "write" THEN call.pre[call.owner].reg ELSE call.owner

\* Every macro of a module names the module's listed CSR number, and no two
\* modules have the same number.
OneAddressEach ==
    /\ DOMAIN FixedAddress = Modules
    /\ \A m \in Modules :
          \A k \in DOMAIN Address[m] : Address[m][k] = FixedAddress[m]
    /\ \A m, n \in Modules : m # n => FixedAddress[m] # FixedAddress[n]

\* C17 (one fixed address per module): every macro of a module names the
\* module's listed CSR number, no two of the 21 modules have the same
\* number, and right after a commit, an atomic set/clear or a raw write
\* every physical register other than the called module's holds what it
\* held before.
C17_FixedAddresses ==
    /\ OneAddressEach
    /\ last.op \in {"write", "set_csr", "clear_csr", "write_usize"} =>
          \A m \in Modules \ {Target(last)} :
              csr[FixedAddress[m]] = last.was[FixedAddress[m]]

\* C17 witness: an Hgatp view of 0xDEADBEEFCAFEBABE committed to a CSR file
\* holding 0x123456789ABCDEF0 throughout: 0x680 has the new word and the
\* other twenty registers the old one.
C17_Witness ==
    /\ last.op = "write"
    /\ view["a"].reg = "Hgatp"
    /\ csr[\h680] = DeadBeef
    /\ \A m \in Modules \ {"Hgatp"} : csr[FixedAddress[m]] = Digits
    /\ Cardinality({FixedAddress[m] : m \in Modules}) = 21

\* C17 witness: hip::set_vssip() on a CSR file holding 0 throughout has
\* changed 0x644 and left hvip, at 0x645, alone.
C17_WitnessAtomic ==
    /\ last.op = "set_csr"
    /\ last.owner = "Hip"
    /\ last.field.name = "vssip"
    /\ csr[\h644] = {2}
    /\ csr[\h645] = Zero

\* C18 (snapshot): a view obtained by read() or from_bits holds the word
\* it was obtained with, changed by its own setters only: each field a
\* setter was called on reads the value last set, every other bit is as
\* obtained, whatever has happened to the physical register since; a commit
\* of another view and an atomic set/clear leave the view as it was.
C18_Snapshot ==
    view["a"] # NoView =>
        /\ \A f \in Fields(view["a"].reg) :
              IF f.name \in DOMAIN sets["a"]
              THEN getter(view["a"], f) = [panic |-> NoPanic, val |-> sets["a"][f.name]]
              ELSE view["a"].bits \cap Range(f) = orig["a"] \cap Range(f)
        /\ \A i \in AllBits :
              (\A f \in Fields(view["a"].reg) : i \notin Range(f))
                => ((i \in view["a"].bits) <=> (i \in orig["a"]))
        /\ last.op \in {"write", "set_csr", "clear_csr"} =>
              /\ view["a"] = last.pre["a"]
              /\ bits(view["a"]) = bits(last.pre["a"])

\* C18 witness: a read hie = 0 into a view; b then committed an Hie view of
\* 0xDEADBEEFCAFEBABE; the register holds the new word, a's view 0.
C18_Witness ==
    /\ last.op = "write"
    /\ last.owner = "b"
    /\ view["a"] = [reg |-> "Hie", bits |-> Zero]
    /\ orig["a"] = Zero
    /\ csr[\h604] = DeadBeef

\* C18 witness: a built an Hie view from 0x123456789ABCDEF0 and called
\* set_sgeie(false); hie::set_vssie() has then set bit 2 of the register,
\* and a's view still has bit 2 clear.
C18_WitnessAtomic ==
    /\ last.op = "set_csr"
    /\ last.field.name = "vssie"
    /\ orig["a"] = Digits
    /\ DOMAIN sets["a"] = {"sgeie"}
    /\ view["a"].bits = Digits \ {12}
    /\ 2 \in csr[\h604]

\* C19 (Hstatus layout): starting from Hstatus::from_bits(0), once
\* set_vtsr(true), set_vgein(g), set_hu(true) and set_vsxl(x) have been
\* called the raw value is (1 << 22) | (g << 12) | (1 << 9) | (code(x) << 32);
\* and on any Hstatus view (raw >> 12) & 0x3F is what vgein() returns and
\* (raw >> 32) & 3 is the code of the variant last given to set_vsxl.
C19_HstatusLayout ==
    view["a"].reg = "Hstatus" =>
        /\ (/\ orig["a"] = Zero
            /\ DOMAIN sets["a"] = LayoutFields
            /\ sets["a"]["vtsr"] = TRUE
            /\ sets["a"]["hu"] = TRUE)
           => LET g == sets["a"]["vgein"]
                  x == sets["a"]["vsxl"]
              IN  /\ Within(g, 6)
                  /\ view["a"].bits
                        = Or(Or(Shl(Bit(0), 22), Shl(g, 12)),
                             Or(Shl(Bit(0), 9), Shl(ToBits(Code(x)), 32)))
        /\ \E vgein \in Fields("Hstatus") :
              /\ vgein.name = "vgein"
              /\ getter(view["a"], vgein)
                    = [panic |-> NoPanic,
                       val |-> And(Shr(view["a"].bits, 12), Ones(6))]
        /\ "vsxl" \in DOMAIN sets["a"]
              => And(Shr(view["a"].bits, 32), Ones(2))
                    = ToBits(Code(sets["a"]["vsxl"]))

\* C19 witness: on a view built from 0, set_vtsr(true), set_vgein(0x3F),
\* set_hu(true) and set_vsxl(Vsxl64) have been called: raw is 0x20043F200.
C19_Witness ==
    /\ view["a"].reg = "Hstatus"
    /\ orig["a"] = Zero
    /\ fault = NoPanic
    /\ DOMAIN sets["a"] = LayoutFields
    /\ sets["a"]["vtsr"] = TRUE
    /\ sets["a"]["hu"] = TRUE
    /\ sets["a"]["vgein"] = Ones(6)
    /\ sets["a"]["vsxl"].name = "Vsxl64"
    /\ view["a"].bits = Hex(0, \h0002, \h0043, \hF200)

\* The bit positions the specification gives the flags of Hstatus and
\* Vsstatus; -1 where it gives none.
ClaimedFlagBit(reg, name) ==
    CASE reg = "Hstatus" /\ name = "vtsr" -> 22
      [] reg = "Hstatus" /\ name = "vtw" -> 21
      [] reg = "Hstatus" /\ name = "vtvm" -> 20
      [] reg = "Hstatus" /\ name = "hu" -> 9
      [] reg = "Hstatus" /\ name = "spvp" -> 8
      [] reg = "Hstatus" /\ name = "spv" -> 7
      [] reg = "Hstatus" /\ name = "gva" -> 6
      [] reg = "Hstatus" /\ name = "vsbe" -> 5
      [] reg = "Vsstatus" /\ name = "mxr" -> 19
      [] reg = "Vsstatus" /\ name = "sum" -> 18
      [] reg = "Vsstatus" /\ name = "spp" -> 8
      [] reg = "Vsstatus" /\ name = "ube" -> 6
      [] reg = "Vsstatus" /\ name = "spie" -> 5
      [] reg = "Vsstatus" /\ name = "sie" -> 1
      [] OTHER -> -1

\* C20 (single-bit flags): right after set_X(v) on a boolean field X at bit
\* i, X() returns v, bit i of the raw value is 1 for v = true and 0 for
\* v = false, and every other bit is as it was before the call; for the
\* flags of Hstatus and Vsstatus i is the listed position.
C20_SingleBitFlags ==
    (last.op = "set" /\ last.field.kind = "flag") =>
        LET i == last.field.start
            reg == view["a"].reg
        IN  /\ fault = NoPanic
            /\ last.field.end = i + 1
            /\ ClaimedFlagBit(reg, last.field.name) \in {-1, i}
            /\ reg \in {"Hstatus", "Vsstatus"}
                  => ClaimedFlagBit(reg, last.field.name) = i
            /\ getter(view["a"], last.field)
                  = [panic |-> NoPanic, val |-> last.arg]
            /\ (i \in view["a"].bits) <=> (last.arg = TRUE)
            /\ view["a"].bits \ {i} = last.pre["a"].bits \ {i}

\* C20 witness: set_vtsr(false) on an Hstatus view of 0xFFFFFFFFFFFFFFFF
\* has cleared bit 22 and nothing else.
C20_Witness ==
    /\ last.op = "set"
    /\ view["a"].reg = "Hstatus"
    /\ last.field.name = "vtsr"
    /\ last.arg = FALSE
    /\ last.pre["a"].bits = AllOnes
    /\ view["a"].bits = AllOnes \ {22}

\* C20 witness: set_sie(true) on a Vsstatus view of 0 has set bit 1 and
\* nothing else.
C20_WitnessSet ==
    /\ last.op = "set"
    /\ view["a"].reg = "Vsstatus"
    /\ last.field.name = "sie"
    /\ last.arg = TRUE
    /\ last.pre["a"].bits = Zero
    /\ view["a"].bits = {1}

---------------------------------------------------------------------------
(* Properties of the accessors, continued                                  *)

\* C21 (scalar getters are shift-and-mask): a scalar getter of a field at
\* bits lo..hi called on a view whose raw value is w returns
\* (w >> lo) & (2^(hi-lo+1) - 1) and never panics, whatever the rest of w
\* holds; for Hgatp, vmid() is (w >> 44) & 0x3FFF and ppn() is
\* w & 0xFFFFFFFFFFF.
C21_ShiftAndMask ==
    (last.op = "get" /\ last.field.kind = "scalar") =>
        LET self == view[last.owner]
            w == self.bits
            lo == last.field.start
            hi == last.field.end - 1
        IN  /\ fault = NoPanic
            /\ sets[last.owner] = NoSets => w = orig[last.owner]
            /\ hi - lo + 1 = ClaimedWidth(self.reg, last.field.name)
            /\ last.ret = And(Shr(w, lo), Ones(hi - lo + 1))
            /\ (self.reg = "Hgatp" /\ last.field.name = "vmid")
                  => last.ret = And(Shr(w, 44), Hex(0, 0, 0, \h3FFF))
            /\ (self.reg = "Hgatp" /\ last.field.name = "ppn")
                  => last.ret = And(w, Hex(0, \h0FFF, \hFFFF, \hFFFF))

\* C21 witness: ppn() of Hgatp::from_bits(0xDEADBEEFCAFEBABE), whose mode
\* field holds an illegal code, returned 0xEEFCAFEBABE.
C21_Witness ==
    /\ last.op = "get"
    /\ view["a"] = [reg |-> "Hgatp", bits |-> DeadBeef]
    /\ sets["a"] = NoSets
    /\ last.field.name = "ppn"
    /\ fault = NoPanic
    /\ last.ret = Hex(0, \h0EEF, \hCAFE, \hBABE)

\* C22 (enumerated set-then-get): right after the typed setter of an
\* enumerated field (Hgatp mode, Vsatp mode, Hstatus vsxl, Vsstatus uxl) is
\* called with variant m, on a view of any raw value, a legal code in the
\* field or not, no panic has happened, the field's bits are code(m), the
\* bits outside the field are as before the call and the getter returns m;
\* a later call of the getter returns the variant last set.
C22_EnumSetThenGet ==
    /\ (last.op = "set" /\ last.field.kind = "enum") =>
          LET o == last.owner
              lo == EnumLow(view[o].reg)
              hi == EnumHigh(view[o].reg)
          IN  /\ fault = NoPanic
              /\ last.arg \in Variants(last.field.enum)
              /\ FieldAt(view[o].bits, lo, hi) = ToBits(Code(last.arg))
              /\ Outside(view[o].bits, lo, hi) = Outside(last.pre[o].bits, lo, hi)
              /\ getter(view[o], last.field) = [panic |-> NoPanic, val |-> last.arg]
    /\ (/\ last.op = "get"
        /\ last.field.kind = "enum"
        /\ last.field.name \in DOMAIN sets[last.owner]) =>
          /\ fault = NoPanic
          /\ last.ret = sets[last.owner][last.field.name]

\* C22 witness: on Hstatus::from_bits(0), whose vsxl field holds the
\* illegal code 0, set_vsxl(Vsxl64) was called and vsxl() has returned
\* Vsxl64; the raw value is 1 << 33.
C22_Witness ==
    /\ last.op = "get"
    /\ view["a"].reg = "Hstatus"
    /\ orig["a"] = Zero
    /\ last.field.name = "vsxl"
    /\ DOMAIN sets["a"] = {"vsxl"}
    /\ last.ret = Variant("VsxlValues", "Vsxl64")
    /\ fault = NoPanic
    /\ view["a"].bits = Bit(33)

\* C22 witness: set_mode(Bare) on a Vsatp view of 0xDEADBEEFCAFEBABE, whose
\* mode field held the illegal code 13, leaves 0x0EADBEEFCAFEBABE.
C22_WitnessIllegal ==
    /\ last.op = "set"
    /\ view["a"].reg = "Vsatp"
    /\ last.pre["a"].bits = DeadBeef
    /\ last.field.name = "mode"
    /\ last.arg.name = "Bare"
    /\ view["a"].bits = Hex(\h0EAD, \hBEEF, \hCAFE, \hBABE)

---------------------------------------------------------------------------
(* Properties of concurrent access                                         *)

\* The word every physical register held at the start, read off a register
\* no module-level function or commit of these specifications touches.
StartWord == csr[FixedAddress["hgeip"]]

\* Whether the fields the two owners called setters on are distinct.
DistinctFields == DOMAIN sets["a"] \cap DOMAIN sets["b"] = {}

\* The bits of register type reg that belong to a field some owner called a
\* setter on.
UpdatedBits(reg) ==
    UNION {Range(f) : f \in {g \in Fields(reg) :
                                g.name \in DOMAIN sets["a"] \cup DOMAIN sets["b"]}}

\* C23 (serialized read-modify-write): when each owner's read() -> setter
\* -> write() sequence on a register runs with no other access in between,
\* then once both owners have committed, having updated distinct fields, the
\* register decodes to each owner's value in the fields that owner set and
\* every other bit is as it was before either sequence.
C23_SerializedUpdates ==
    (/\ last.op = "write"
     /\ Len(issued) = 2
     /\ view["a"].reg = view["b"].reg
     /\ DistinctFields) =>
        LET reg == view["a"].reg
            now == [reg |-> reg, bits |-> csr[FixedAddress[reg]]]
        IN  /\ fault = NoPanic
            /\ \A o \in Owners : \A f \in Fields(reg) :
                  f.name \in DOMAIN sets[o]
                    => getter(now, f) = [panic |-> NoPanic, val |-> sets[o][f.name]]
            /\ now.bits \ UpdatedBits(reg) = StartWord \ UpdatedBits(reg)

\* C23 witness: hie holds 0; a reads, calls set_vssie(true) and commits;
\* then b reads, calls set_vstie(true) and commits: hie = 0x44, both bits.
C23_Witness ==
    /\ last.op = "write"
    /\ last.owner = "b"
    /\ Len(issued) = 2
    /\ view["a"].reg = "Hie"
    /\ view["b"].reg = "Hie"
    /\ DOMAIN sets["a"] = {"vssie"}
    /\ sets["a"]["vssie"] = TRUE
    /\ DOMAIN sets["b"] = {"vstie"}
    /\ sets["b"]["vstie"] = TRUE
    /\ StartWord = Zero
    /\ orig["b"] = {2}
    /\ csr[\h604] = {2, 6}

\* C23 witness: hgatp holds 0x123456789ABCDEF0; b reads, calls
\* set_vmid(0x2A3F) and commits; then a reads, calls set_mode(Sv48x4) and
\* commits: hgatp = 0x92A3F6789ABCDEF0.
C23_WitnessHgatp ==
    /\ last.op = "write"
    /\ last.owner = "a"
    /\ Len(issued) = 2
    /\ view["a"].reg = "Hgatp"
    /\ view["b"].reg = "Hgatp"
    /\ DOMAIN sets["a"] = {"mode"}
    /\ sets["a"]["mode"].name = "Sv48x4"
    /\ DOMAIN sets["b"] = {"vmid"}
    /\ sets["b"]["vmid"] = TestVmid
    /\ StartWord = Digits
    /\ csr[\h680] = Hex(\h92A3, \hF678, \h9ABC, \hDEF0)

\* Whether bit set b of word w has the value instruction i asks for: 1
\* after csrrs, 0 after csrrc.
Requested(i, w) ==
    IF i.op = "csrrs" THEN i.word \subseteq w ELSE i.word \cap w = {}

\* C24 (atomic operations keep each other's updates): once two module-level
\* set_X/clear_X functions of one register with different bits have run,
\* in either order, the register has both bits at the requested values and
\* every other bit as it was before the two.
C24_AtomicNoLostUpdate ==
    (/\ Len(issued) = 2
     /\ issued[1].addr = issued[2].addr
     /\ issued[1].word # issued[2].word) =>
        LET now == csr[issued[1].addr]
            both == issued[1].word \cup issued[2].word
        IN  /\ Cardinality(both) = 2
            /\ Requested(issued[1], now)
            /\ Requested(issued[2], now)
            /\ now \ both = StartWord \ both
            /\ last.op \in {"set_csr", "clear_csr"}
            /\ issued[2].word = Bit(FlagBit(last.owner, last.field.name))

\* C24 witness: hie holds 0x123456789ABCDEF0, bit 2 clear and bit 10 set;
\* hie::set_vssie() and then hie::clear_vseie() leave 0x123456789ABCDAF4.
C24_Witness ==
    /\ Len(issued) = 2
    /\ issued[1] = Instr("csrrs", \h604, Bit(2))
    /\ last.op = "clear_csr"
    /\ last.owner = "Hie"
    /\ last.field.name = "vseie"
    /\ StartWord = Digits
    /\ csr[\h604] = Hex(\h1234, \h5678, \h9ABC, \hDAF4)

\* C24 witness, the other order: hie::clear_vseie() and then
\* hie::set_vssie() leave the same word.
C24_WitnessReverse ==
    /\ Len(issued) = 2
    /\ issued[1] = Instr("csrrc", \h604, Bit(10))
    /\ last.op = "set_csr"
    /\ last.owner = "Hie"
    /\ last.field.name = "vssie"
    /\ StartWord = Digits
    /\ csr[\h604] = Hex(\h1234, \h5678, \h9ABC, \hDAF4)

---------------------------------------------------------------------------
(* Properties relating the accessors                                       *)

\* The view accessor of register type reg named n.
ViewFlag(reg, n) == CHOOSE f \in Fields(reg) : f.name = n

\* Every set_X/clear_X of every module has a boolean view accessor X, on
\* the bit of its mask.
SameBit ==
    \A r \in Regs : \A m \in SetClearOps(r) :
        /\ \E f \in Fields(r) : f.name = m.name /\ f.kind = "flag"
        /\ m.mask = Bit(ViewFlag(r, m.name).start)

\* C25 (the atomic path agrees with the view path): every set_X/clear_X
\* uses the bit of the view accessor X, so (a) right after set_X()
\* (clear_X()) the register holds what the view path would leave from the
\* same prior value, the prior value with X set to true (false) by the
\* view's setter, and (b) right after read() -> view.set_X(v) -> write() run
\* without interference the whole CSR file is what set_X() (v true) or
\* clear_X() (v false) would have left from the prior file.
C25_PathsAgree ==
    /\ SameBit
    /\ last.op \in {"set_csr", "clear_csr"} =>
          LET r == last.owner
              addr == FixedAddress[r]
              prior == [reg |-> r, bits |-> last.was[addr]]
              path == setter(prior, ViewFlag(r, last.field.name), last.op = "set_csr")
          IN  /\ path.panic = NoPanic
              /\ csr[addr] = path.view.bits
    /\ (/\ last.op = "write"
        /\ Len(issued) = 1
        /\ Cardinality(DOMAIN sets["a"]) = 1) =>
          LET r == view["a"].reg
              ops == {m \in SetClearOps(r) : m.name \in DOMAIN sets["a"]}
          IN  \A m \in ops :
                  /\ orig["a"] = last.was[FixedAddress[r]]
                  /\ csr = IF sets["a"][m.name]
                           THEN csrrs(last.was, Address[r].set, m.mask)
                           ELSE csrrc(last.was, Address[r].clear, m.mask)

\* C25 witness, view path: vsie holds 0xFFFFFFFFFFFFFFFF; a reads it, calls
\* set_stie(false) and commits: the register is left as clear_stie() would
\* leave it, with bit 5 clear.
C25_Witness ==
    /\ last.op = "write"
    /\ view["a"].reg = "Vsie"
    /\ orig["a"] = AllOnes
    /\ DOMAIN sets["a"] = {"stie"}
    /\ sets["a"]["stie"] = FALSE
    /\ csr[\h204] = AllOnes \ {5}
    /\ csr = csrrc(last.was, \h204, Bit(5))

\* C25 witness, atomic path: vscause::set_interrupt() on a register holding
\* 0x123456789ABCDEF0 leaves what set_interrupt(true) makes of that word.
C25_WitnessAtomic ==
    /\ last.op = "set_csr"
    /\ last.owner = "Vscause"
    /\ last.field.name = "interrupt"
    /\ last.was[\h242] = Digits
    /\ csr[\h242] = set_bit(Digits, 63, TRUE)
    /\ 63 \in csr[\h242]

\* Whether the enumerated field of owner o's view is known to hold a legal
\* code: the word the view was obtained with had one, or the typed setter
\* has been called.
KnownLegal(o) ==
    \/ ~HoldsIllegalCode([reg |-> view[o].reg, bits |-> orig[o]])
    \/ \E f \in Fields(view[o].reg) : f.kind = "enum" /\ f.name \in DOMAIN sets[o]

\* C26 (legal enumerated state is preserved): once the enumerated field of
\* a view holds a legal code, because the word the view was obtained with
\* had one or the typed setter was called, it holds a legal code after
\* every later setter call with a value that fits, and the enumerated getter
\* returns without panic; the illegal-code panic happens only in the
\* enumerated getter of a view whose field still has the illegal code of
\* the word given to from_bits or returned by read().
C26_LegalStaysLegal ==
    view["a"] # NoView =>
        /\ KnownLegal("a") =>
              /\ ~HoldsIllegalCode(view["a"])
              /\ fault = NoPanic
              /\ \A f \in Fields(view["a"].reg) :
                    f.kind = "enum" => getter(view["a"], f).panic = NoPanic
        /\ fault # NoPanic =>
              /\ fault = Unreachable
              /\ last.op = "get"
              /\ last.field.kind = "enum"
              /\ last.field.name \notin DOMAIN sets["a"]
              /\ HoldsIllegalCode([reg |-> view["a"].reg, bits |-> orig["a"]])
              /\ FieldAt(view["a"].bits, EnumLow(view["a"].reg), EnumHigh(view["a"].reg))
                    = FieldAt(orig["a"], EnumLow(view["a"].reg), EnumHigh(view["a"].reg))

\* C26 witness: a Vsatp view read from a register holding 0 (mode Bare);
\* set_asid(0xFFFF) was called and mode() has returned Bare.
C26_Witness ==
    /\ last.op = "get"
    /\ view["a"].reg = "Vsatp"
    /\ orig["a"] = Zero
    /\ csr[\h280] = Zero
    /\ DOMAIN sets["a"] = {"asid"}
    /\ sets["a"]["asid"] = Ones(16)
    /\ last.field.name = "mode"
    /\ fault = NoPanic
    /\ last.ret = Variant("vsatp::HgatpValues", "Bare")

\* C26 witness, the fault: vsxl() of an Hstatus view read from a register
\* holding 0, after set_vgein(0x3F), has panicked.
C26_WitnessFault ==
    /\ last.op = "get"
    /\ view["a"].reg = "Hstatus"
    /\ orig["a"] = Zero
    /\ csr[\h600] = Zero
    /\ DOMAIN sets["a"] = {"vgein"}
    /\ last.field.name = "vsxl"
    /\ fault = Unreachable

\* The bits of register type reg that belong to no accessor.
Reserved(reg) == AllBits \ UNION {Range(f) : f \in Fields(reg)}

\* The reserved bits the specification lists.
ClaimedReserved(reg) ==
    CASE reg = "Hgatp" -> {58, 59}
      [] reg = "Hstatus" ->
            (0 .. 4) \cup {10, 11} \cup {18, 19} \cup (23 .. 31) \cup (34 .. 63)
      [] reg = "Hedeleg" -> AllBits \ HedelegBits
      [] OTHER -> Reserved(reg)

FlagOnly == {"Hideleg", "Hie", "Hip", "Hvip", "Vsie", "Vsip"}

\* C27 (reserved bits are preserved): in every view, whatever setters have
\* been called on it, each bit that belongs to no field is the bit of the
\* word the view was built from, and no setter call changes such a bit:
\* bits 58-59 of Hgatp, bits 0-4, 10-11, 18-19, 23-31 and 34-63 of Hstatus,
\* and every bit but the three or four flag bits of Hideleg, Hie, Hip, Hvip,
\* Vsie and Vsip.
C27_ReservedBits ==
    view["a"] # NoView =>
        LET reg == view["a"].reg
            R == ClaimedReserved(reg)
        IN  /\ R = Reserved(reg)
            /\ reg \in FlagOnly => Cardinality(AllBits \ R) \in {3, 4}
            /\ view["a"].bits \cap R = orig["a"] \cap R
            /\ last.op = "set" =>
                  view["a"].bits \cap R = last.pre["a"].bits \cap R

\* C27 witness: set_vmid(0) on an all-ones Hgatp view has cleared bits
\* 44..57 and left the reserved bits 58 and 59 set.
C27_Witness ==
    /\ last.op = "set"
    /\ view["a"].reg = "Hgatp"
    /\ orig["a"] = AllOnes
    /\ last.field.name = "vmid"
    /\ last.arg = Zero
    /\ view["a"].bits = AllOnes \ (44 .. 57)
    /\ {58, 59} \subseteq view["a"].bits

\* C27 witness: set_tip(true) on an Hideleg view of 0x123456789ABCDEF0 has
\* left all bits but bit 6 as they were.
C27_WitnessFlags ==
    /\ last.op = "set"
    /\ view["a"].reg = "Hideleg"
    /\ orig["a"] = Digits
    /\ last.field.name = "tip"
    /\ last.arg = TRUE
    /\ view["a"].bits \ {6} = Digits \ {6}

\* What the getter named n returns on view self, as a word (a flag as 0
\* or 1).
Value(self, n) ==
    LET f == ViewFlag(self.reg, n)
        r == getter(self, f).val
    IN  IF f.kind = "flag" THEN (IF r THEN Bit(0) ELSE Zero) ELSE r

\* C28 (full-cover registers): the raw value of a Vsatp, Vscause or Vstvec
\* view is always the composition of its fields:
\* (mode bits << 60) | (asid() << 44) | ppn(),
\* (interrupt() << 63) | code() and (base() << 2) | mode(), from every
\* starting word and whatever setters have been called.
C28_FullCover ==
    LET self == view["a"]
        raw == bits(self)
    IN  /\ self.reg = "Vsatp" =>
              raw = Or(Shl(And(Shr(raw, 60), Ones(4)), 60),
                       Or(Shl(Value(self, "asid"), 44), Value(self, "ppn")))
        /\ self.reg = "Vscause" =>
              raw = Or(Shl(Value(self, "interrupt"), 63), Value(self, "code"))
        /\ self.reg = "Vstvec" =>
              raw = Or(Shl(Value(self, "base"), 2), Value(self, "mode"))
        /\ self.reg \in {"Vsatp", "Vscause", "Vstvec"} => Reserved(self.reg) = {}

\* C28 witness: on a Vstvec view of 0xFFFFFFFFFFFFFFFF set_base(0) was
\* called: base() is 0, mode() is 3 and the raw value is 3.
C28_Witness ==
    /\ last.op = "set"
    /\ view["a"].reg = "Vstvec"
    /\ orig["a"] = AllOnes
    /\ last.field.name = "base"
    /\ last.arg = Zero
    /\ Value(view["a"], "base") = Zero
    /\ Value(view["a"], "mode") = Ones(2)
    /\ view["a"].bits = Ones(2)

\* C28 witness: a Vscause view of 0xDEADBEEFCAFEBABE: interrupt() is true
\* and code() is 0x5EADBEEFCAFEBABE.
C28_WitnessVscause ==
    /\ last.op = "get"
    /\ view["a"] = [reg |-> "Vscause", bits |-> DeadBeef]
    /\ last.field.name = "code"
    /\ last.ret = Hex(\h5EAD, \hBEEF, \hCAFE, \hBABE)
    /\ Value(view["a"], "interrupt") = Bit(0)

\* C29 (setters of distinct fields commute): two views of one type built
\* from the same word, on which the same setters of distinct fields have
\* been called with the same fitting values, hold the same raw value,
\* whatever the order of the calls on each.
C29_SettersCommute ==
    (/\ view["a"] # NoView
     /\ view["b"] # NoView
     /\ sets["a"] = sets["b"]) =>
        /\ fault = NoPanic
        /\ view["a"].reg = view["b"].reg
        /\ orig["a"] = orig["b"]
        /\ bits(view["a"]) = bits(view["b"])

\* C29 witness: on Hgatp views of 0x123456789ABCDEF0, a called
\* set_vmid(0x2A3F) and then set_mode(Sv48x4), b set_mode(Sv48x4) and then
\* set_vmid(0x2A3F): both hold 0x92A3F6789ABCDEF0.
C29_Witness ==
    /\ last.op = "set"
    /\ last.owner = "b"
    /\ last.field.name = "vmid"
    /\ view["a"].reg = "Hgatp"
    /\ orig["a"] = Digits
    /\ DOMAIN sets["a"] = {"vmid", "mode"}
    /\ sets["a"]["vmid"] = TestVmid
    /\ sets["a"]["mode"].name = "Sv48x4"
    /\ sets["b"] = sets["a"]
    /\ view["b"].bits = Hex(\h92A3, \hF678, \h9ABC, \hDEF0)
    /\ view["a"].bits = view["b"].bits

\* C29 witness: on Vsstatus views of 0xFFFFFFFFFFFFFFFF, a called
\* set_fs(0) and then set_xs(0), b set_xs(0) and then set_fs(0).
C29_WitnessVsstatus ==
    /\ last.op = "set"
    /\ last.owner = "b"
    /\ last.field.name = "fs"
    /\ view["a"].reg = "Vsstatus"
    /\ orig["a"] = AllOnes
    /\ DOMAIN sets["a"] = {"fs", "xs"}
    /\ sets["b"] = sets["a"]
    /\ view["b"].bits = AllOnes \ (13 .. 16)
    /\ view["a"].bits = view["b"].bits

\* What mode() returns (or its panic) on the view owner o holds.
ModeOf(o) == getter(view[o], ViewFlag(view[o].reg, "mode"))

\* C30 (Vsatp::mode and Hgatp::mode decode alike): both read bits 60..63;
\* on views whose bits 60..63 hold the same code both getters panic (codes
\* other than 0, 8, 9) or both return the variant of the same name, whose
\* numeric code is that code (Bare 0, Sv39x4 8, Sv48x4 9); and on views
\* built from the same word, set_mode of the variant of the same name
\* leaves the same raw value in both.
C30_SameModeDecoding ==
    (view["a"].reg = "Hgatp" /\ view["b"].reg = "Vsatp") =>
        LET ca == FieldAt(view["a"].bits, 60, 63)
            cb == FieldAt(view["b"].bits, 60, 63)
        IN  /\ \A o \in Owners :
                  /\ ViewFlag(view[o].reg, "mode").start = 60
                  /\ ViewFlag(view[o].reg, "mode").end = 64
            /\ ca = cb =>
                  /\ ModeOf("a").panic = ModeOf("b").panic
                  /\ ModeOf("a").val.name = ModeOf("b").val.name
                  /\ IF ToNat(ca) \in {0, 8, 9}
                     THEN /\ ModeOf("a").panic = NoPanic
                          /\ as_usize(ModeOf("a").val) = ToNat(ca)
                          /\ as_usize(ModeOf("b").val) = ToNat(ca)
                          /\ Code(ModeOf("a").val) = ToNat(ca)
                     ELSE ModeOf("a").panic = Unreachable
            /\ last.op = "get" =>
                  /\ fault = ModeOf(last.owner).panic
                  /\ last.ret = ModeOf(last.owner).val
            /\ (/\ DOMAIN sets["a"] = {"mode"}
                /\ DOMAIN sets["b"] = {"mode"}
                /\ sets["a"]["mode"].name = sets["b"]["mode"].name) =>
                  /\ view["a"].bits = view["b"].bits
                  /\ ca = ToBits(Code(sets["a"]["mode"]))

\* C30 witness: an Hgatp and a Vsatp view of 0x8FFFFFFFFFFFFFFF; Vsatp's
\* mode() has returned Sv39x4, as Hgatp's does.
C30_Witness ==
    /\ last.op = "get"
    /\ last.owner = "b"
    /\ view["a"] = [reg |-> "Hgatp", bits |-> Or(Shl(ToBits(8), 60), Ones(60))]
    /\ view["b"] = [reg |-> "Vsatp", bits |-> view["a"].bits]
    /\ fault = NoPanic
    /\ last.ret = Variant("vsatp::HgatpValues", "Sv39x4")
    /\ ModeOf("a").val = Variant("hgatp::HgatpValues", "Sv39x4")

\* C30 witness, the fault: views of 0xA000000000000000, code 10; Hgatp's
\* mode() has panicked, as Vsatp's would.
C30_WitnessFault ==
    /\ last.op = "get"
    /\ last.owner = "a"
    /\ view["a"] = [reg |-> "Hgatp", bits |-> Hex(\hA000, 0, 0, 0)]
    /\ view["b"] = [reg |-> "Vsatp", bits |-> view["a"].bits]
    /\ fault = Unreachable
    /\ ModeOf("b").panic = Unreachable

\* C30 witness, the setters: from 0xF000000000000000 set_mode(Sv48x4) on
\* both views has left 0x9000000000000000 in both.
C30_WitnessSet ==
    /\ last.op = "set"
    /\ view["a"].reg = "Hgatp"
    /\ view["b"].reg = "Vsatp"
    /\ orig["a"] = Hex(\hF000, 0, 0, 0)
    /\ DOMAIN sets["a"] = {"mode"}
    /\ DOMAIN sets["b"] = {"mode"}
    /\ sets["a"]["mode"].name = "Sv48x4"
    /\ sets["b"]["mode"].name = "Sv48x4"
    /\ view["a"].bits = Hex(\h9000, 0, 0, 0)
    /\ view["b"].bits = Hex(\h9000, 0, 0, 0)

=============================================================================
